---- MODULE Spec2Model ----
(***************************************************************************)
(* A model of termillion's PTY core (src-tauri/src/pty/core.rs): the       *)
(* session store, create_pty with its reader thread (OutputPump) and exit  *)
(* watcher thread (ExitWatcher), destroy_pty and is_pty_alive, together    *)
(* with the child process and the PTY buffer they act on.                  *)
(*                                                                         *)
(* Two specifications share the same actions:                              *)
(*   Spec      the whole lifecycle of one session under concurrent calls;  *)
(*   PumpSpec  the reader thread alone on a created session, over every    *)
(*             bounded child output and every way of cutting it into reads.*)
(***************************************************************************)
EXTENDS Integers, Sequences, FiniteSets, TLC

\* ---------------------------------------------------------------- bounds

\* Number of writes the child performs in PumpSpec / in Spec, and the most
\* bytes it writes in all.
MaxWrites == 3
MaxWritesCore == 1
MaxStream == 6
\* buffer_size: the most bytes one read returns (core.rs:229, configurable).
BufferSize == 6
\* batch_timeout in clock ticks (core.rs:233, configurable).
BatchTimeout == 1
\* Number of commands the frontend issues.
MaxCalls == 2
\* Number of bytes in the data of a write_pty call.
DataLen == 2
\* Number of Metrics events the metrics thread sends.
MaxMetrics == 1
\* TitleSpec: pieces the child has written before the reader's first read.
MaxTokens == 4

\* ------------------------------------------------------------ byte values

BEL == 7
ESC == 27
ZERO == 48
SEMI == 59
BSL == 92
RBR == 93
LETTER == 97
BAD == 255

\* What the child writes in one write: the title introducer ESC ] 0 ; or one
\* byte (a letter, BEL, backslash, ESC, or a byte that is never valid UTF-8).
Intro == <<ESC, RBR, ZERO, SEMI>>
Tokens == {Intro, <<LETTER>>, <<BEL>>, <<BSL>>, <<ESC>>, <<BAD>>}
CoreTokens == {<<LETTER>>}

\* rows and cols create_pty opens the PTY with, and those resize_pty is
\* called with (the dimensions are not validated: zero is accepted).
OpenSize == <<24, 80>>
NewSizes == {<<0, 0>>, <<30, 100>>}

\* The session ids create_pty hands out, and an id that is never registered.
Ids == {"s1"}
Unknown == "u"
Targets == Ids \cup {Unknown}
\* Frontend tasks that issue destroy_pty / is_pty_alive commands.
Callers == {"c1", "c2"}

VARIABLES
    store,            \* PTY_STORE: the registered ids
    lock,             \* holder of the PTY_STORE mutex, or "free"
    exit_event_sent,  \* PtyInstance.exit_event_sent (shared atomic flag)
    child,            \* the child process: "none", "running", "exited"
    writer,           \* PtyInstance.writer: "none", "held", "dropped"
    bytes_read,       \* PtyMetrics.bytes_read
    messages_sent,    \* PtyMetrics.messages_sent
    events,           \* what the output channel has delivered, in order
    kills,            \* number of child.kill() calls made
    waits,            \* number of child.wait() calls made
    removals,         \* who store::remove gave Some(instance) to, in order
    pending,          \* bytes the child has written that no read returned yet
    raw,              \* bytes the reader has read so far, in read order
    wrote,            \* number of writes the child has made
    rpc,              \* reader thread: position
    buffer,           \* reader thread: buffer[0..n] of the last read
    batch_buffer,     \* reader thread: batch_buffer
    title_sequence,   \* reader thread: title_sequence
    title_buffer,     \* reader thread: title_buffer
    elapsed,          \* reader thread: now - last_send, saturating
    wpc,              \* exit watcher thread: position
    crpc,             \* create_pty: position
    crres,            \* create_pty: result ("none", "Ok", "Err")
    cpc,              \* frontend task: position in its command
    cop,              \* frontend task: its command
    carg,             \* frontend task: pty_id argument
    cres,             \* frontend task: result of the last command
    creg,             \* frontend task: the id was registered at invocation
    cdet,             \* frontend task: its destroy_pty got Some from remove
    ncalls,           \* commands invoked so far
    bytes_written,    \* PtyMetrics.bytes_written
    written,          \* bytes the writer has put on the PTY, in order
    size,             \* the PTY's size, as set by openpty and master.resize
    cdata,            \* frontend task: the data of its write_pty
    csent,            \* frontend task: bytes of data its write_all has written
    csize,            \* frontend task: the rows and cols of its resize_pty
    mpc,              \* metrics thread: position
    metrics_interval_ms, \* create_pty: the metrics_interval_ms argument
    platform,         \* get_default_shell: the target_os of the build
    command,          \* create_pty: the command argument, <<>> for None
    shell_env,        \* the SHELL variable of the environment
    found,            \* find_powershell: the candidates that exist
    resolved,         \* <<program of cmd_builder>>, once it is built
    errs,             \* the Err values create_pty calls have returned
    ptys,             \* PtyManager (pty.rs): the ids in its map
    ptys_lock,        \* "free", or who holds the map's mutex
    pty_child,        \* [id -> "none" | "running" | "exited"]
    pty_pending,      \* [id -> bytes the child wrote, not yet read]
    pty_wrote,        \* [id -> number of writes of the child]
    task,             \* [id -> where the reader task is]
    window,           \* [id -> the calls of window.emit, in order]
    taken,            \* [id -> who got the instance from ptys.remove]
    reaped,           \* [id -> the kill and wait calls on the child]
    dpc,              \* [caller -> where its PtyManager::destroy_pty is]
    shortcuts,        \* Config.shortcuts: [name -> Shortcut]
    edits,            \* number of shortcuts changed since Config::default()
    validation        \* <<what Config::validate returned>>, once called

vars == <<store, lock, removals, exit_event_sent, child, writer, bytes_read,
          messages_sent, events, kills, waits, pending, raw, wrote, rpc,
          buffer, batch_buffer, title_sequence, title_buffer, elapsed, wpc,
          crpc, crres, cpc, cop, carg, cres, creg, cdet, ncalls,
          bytes_written, written, size, cdata, csent, csize, mpc,
          metrics_interval_ms, platform, command, shell_env, found,
          resolved, errs, ptys, ptys_lock, pty_child, pty_pending,
          pty_wrote, task, window, taken, reaped, dpc, shortcuts, edits,
          validation>>

storeVars == <<store, lock, removals>>
instVars == <<exit_event_sent, child, writer, bytes_read, messages_sent,
              kills, waits>>
ptyVars == <<pending, raw, wrote>>
readerVars == <<rpc, buffer, batch_buffer, title_sequence, title_buffer,
                elapsed>>
createVars == <<crpc, crres>>
callVars == <<cpc, cop, carg, cres, creg, cdet, ncalls>>
ioVars == <<bytes_written, written, size, cdata, csent, csize>>
\* What no session of pty/core.rs touches once it is registered.
managerVars == <<ptys, ptys_lock, pty_child, pty_pending, pty_wrote, task,
                 window, taken, reaped, dpc>>
configVars == <<shortcuts, edits, validation>>
auxVars == <<errs, managerVars, configVars>>
shellVars == <<platform, command, shell_env, found, resolved, auxVars>>
\* What the reader thread, the exit watcher, destroy_pty and is_pty_alive
\* never touch.
sideVars == <<ioVars, mpc, metrics_interval_ms, shellVars>>

\* ---------------------------------------------------------------- helpers

Min(a, b) == IF a <= b THEN a ELSE b

\* PtyOutputEvent (core.rs:65-80). data is a byte sequence for Output and
\* Title, and the status text for Exit.
OutputEv(bytes) == [type |-> "Output", data |-> bytes]
TitleEv(text) == [type |-> "Title", data |-> text]
BellEv == [type |-> "Bell"]
ExitEv(status) == [type |-> "Exit", status |-> status]
MetricsEv(r, w, m) ==
    [type |-> "Metrics", bytes_read |-> r, bytes_written |-> w,
     messages_sent |-> m]

IsCont(b) == b >= 128 /\ b <= 191

\* String::from_utf8 accepts exactly the well-formed UTF-8 byte sequences and
\* keeps the bytes as they are.
RECURSIVE ValidUtf8From(_, _)
ValidUtf8From(b, i) ==
    IF i > Len(b) THEN TRUE
    ELSE IF b[i] < 128 THEN ValidUtf8From(b, i + 1)
    ELSE IF b[i] >= 194 /\ b[i] <= 223
        THEN i + 1 <= Len(b) /\ IsCont(b[i + 1]) /\ ValidUtf8From(b, i + 2)
    ELSE IF b[i] >= 224 /\ b[i] <= 239
        THEN /\ i + 2 <= Len(b)
             /\ IsCont(b[i + 1]) /\ IsCont(b[i + 2])
             /\ (b[i] = 224 => b[i + 1] >= 160)
             /\ (b[i] = 237 => b[i + 1] <= 159)
             /\ ValidUtf8From(b, i + 3)
    ELSE IF b[i] >= 240 /\ b[i] <= 244
        THEN /\ i + 3 <= Len(b)
             /\ IsCont(b[i + 1]) /\ IsCont(b[i + 2]) /\ IsCont(b[i + 3])
             /\ (b[i] = 240 => b[i + 1] >= 144)
             /\ (b[i] = 244 => b[i + 1] <= 143)
             /\ ValidUtf8From(b, i + 4)
    ELSE FALSE

\* core.rs:253: String::from_utf8(title_buf.clone()) is Ok. (ValidUtf8Lossy:
\* a lossy decoding, which gives a string for any bytes.)
ValidUtf8Lossy(b) == TRUE

ValidUtf8(b) == ValidUtf8From(b, 1)

\* ------------------------------------------------- reader: process_for_title

\* The scanner's state after the while loop has handled data[i..]: the batch,
\* the two title variables and the Title events sent on the way.
Scan(batch, ts, tb, titles) ==
    [batch |-> batch, title_seq |-> ts, title_buf |-> tb, titles |-> titles]

\* The test of core.rs:272 for a confirmed introducer at data[i..i+3].
IntroAt(data, i) ==
    /\ i + 3 <= Len(data)
    /\ data[i + 2] = ZERO
    /\ data[i + 3] = SEMI

RECURSIVE ProcessFrom(_, _, _, _, _, _)
ProcessFrom(data, i, batch, ts, tb, titles) ==
    IF i > Len(data) THEN Scan(batch, ts, tb, titles)
    ELSE IF ts THEN
        IF data[i] = BSL \/ data[i] = BEL
        THEN ProcessFrom(data, i + 1, batch, FALSE, <<>>,
                         IF ValidUtf8(tb) THEN Append(titles, tb) ELSE titles)
        ELSE ProcessFrom(data, i + 1, batch, TRUE, Append(tb, data[i]), titles)
    ELSE IF i + 1 <= Len(data) /\ data[i] = ESC /\ data[i + 1] = RBR THEN
        IF IntroAt(data, i)
        THEN ProcessFrom(data, i + 4, batch, TRUE, tb, titles)
        ELSE ProcessFrom(data, i + 1, Append(batch, data[i]), ts, tb, titles)
    ELSE ProcessFrom(data, i + 1, Append(batch, data[i]), ts, tb, titles)

process_for_title(data, batch, title_seq, title_buf) ==
    ProcessFrom(data, 1, batch, title_seq, title_buf, <<>>)

\* --------------------------------------------------- reader: send_batch

\* send_batch's test (core.rs:295): there is data, and the send is forced or
\* the batch timeout has elapsed since the last send. (ShouldSendTimed: the
\* test without its force operand.)
ShouldSendTimed(id, force) ==
    /\ batch_buffer[id] # <<>>
    /\ elapsed[id] >= BatchTimeout

ShouldSend(id, force) ==
    /\ batch_buffer[id] # <<>>
    /\ (force \/ elapsed[id] >= BatchTimeout)

\* (SendBatchCountsTitle: the bytes held for a title are counted as well.)
SendBatchCountsTitle(id, force, pcSend, pcSkip) ==
    IF ShouldSend(id, force)
    THEN /\ bytes_read' =
                [bytes_read EXCEPT ![id] =
                    @ + Len(batch_buffer[id]) + Len(title_buffer[id])]
         /\ messages_sent' = [messages_sent EXCEPT ![id] = @ + 1]
         /\ rpc' = [rpc EXCEPT ![id] = pcSend]
    ELSE /\ rpc' = [rpc EXCEPT ![id] = pcSkip]
         /\ UNCHANGED <<bytes_read, messages_sent>>

\* core.rs:290-301: decide, and count the bytes and the message.
SendBatchCount(id, force, pcSend, pcSkip) ==
    IF ShouldSend(id, force)
    THEN /\ bytes_read' =
                [bytes_read EXCEPT ![id] = @ + Len(batch_buffer[id])]
         /\ messages_sent' = [messages_sent EXCEPT ![id] = @ + 1]
         /\ rpc' = [rpc EXCEPT ![id] = pcSend]
    ELSE /\ rpc' = [rpc EXCEPT ![id] = pcSkip]
         /\ UNCHANGED <<bytes_read, messages_sent>>

\* core.rs:303-310: send the Output event, clear the batch, restart the timer.
SendBatchEmit(id, pcNext) ==
    /\ events' = [events EXCEPT ![id] = Append(@, OutputEv(batch_buffer[id]))]
    /\ batch_buffer' = [batch_buffer EXCEPT ![id] = <<>>]
    /\ elapsed' = [elapsed EXCEPT ![id] = 0]
    /\ rpc' = [rpc EXCEPT ![id] = pcNext]

\* ------------------------------------------------ reader thread (OutputPump)

\* reader.read returns Ok(n), n > 0: some prefix of what the child has written.
ReaderRead(id) ==
    /\ rpc[id] = "read"
    /\ pending[id] # <<>>
    /\ \E n \in 1..Min(Len(pending[id]), BufferSize) :
        /\ buffer' = [buffer EXCEPT ![id] = SubSeq(pending[id], 1, n)]
        /\ pending' = [pending EXCEPT ![id] =
                          SubSeq(@, n + 1, Len(@))]
        /\ raw' = [raw EXCEPT ![id] = @ \o SubSeq(pending[id], 1, n)]
    /\ rpc' = [rpc EXCEPT ![id] = "bell"]
    /\ UNCHANGED <<storeVars, instVars, events, wrote, batch_buffer,
                   title_sequence, title_buffer, elapsed, wpc, createVars,
                   callVars, sideVars>>

\* reader.read returns Ok(0) or Err(e): the child is gone, the slave side is
\* closed with it and every byte written has been read (a PTY master reports
\* this as end of file or as an I/O error, depending on the platform). Both
\* arms go on to the forced send_batch and break.
ReaderEnd(id) ==
    /\ rpc[id] = "read"
    /\ pending[id] = <<>>
    /\ child[id] = "exited"
    /\ rpc' = [rpc EXCEPT ![id] = "flush"]
    /\ UNCHANGED <<storeVars, instVars, events, ptyVars, buffer,
                   batch_buffer, title_sequence, title_buffer, elapsed, wpc,
                   createVars, callVars, sideVars>>

\* buffer[0..n].contains(&7), and the same test with a bug: only the first
\* byte is looked at.
ContainsBellFirstOnly(data) == data # <<>> /\ data[1] = BEL

ContainsBell(data) == \E i \in 1..Len(data) : data[i] = BEL

\* (ReaderBellPerByte: one Bell event for every BEL byte of the chunk.)
ReaderBellPerByte(id) ==
    /\ rpc[id] = "bell"
    /\ events' = [events EXCEPT ![id] =
                     @ \o [k \in 1..Cardinality(
                                {i \in 1..Len(buffer[id]) :
                                    buffer[id][i] = BEL}) |-> BellEv]]
    /\ rpc' = [rpc EXCEPT ![id] = "title"]
    /\ UNCHANGED <<storeVars, instVars, ptyVars, buffer, batch_buffer,
                   title_sequence, title_buffer, elapsed, wpc, createVars,
                   callVars, sideVars>>

\* core.rs:325-331: the bell check on buffer[0..n].
ReaderBell(id) ==
    /\ rpc[id] = "bell"
    /\ events' = [events EXCEPT ![id] =
                     IF ContainsBell(buffer[id])
                     THEN Append(@, BellEv) ELSE @]
    /\ rpc' = [rpc EXCEPT ![id] = "title"]
    /\ UNCHANGED <<storeVars, instVars, ptyVars, buffer, batch_buffer,
                   title_sequence, title_buffer, elapsed, wpc, createVars,
                   callVars, sideVars>>

\* (ReaderTitleStripsEsc: a scanner that takes ESC \ for a two-byte
\* terminator and leaves the ESC out of the title.)
ReaderTitleStripsEsc(id) ==
    /\ rpc[id] = "title"
    /\ LET r == process_for_title(buffer[id], batch_buffer[id],
                                  title_sequence[id], title_buffer[id])
           Strip(t) == IF t # <<>> /\ t[Len(t)] = ESC
                       THEN SubSeq(t, 1, Len(t) - 1) ELSE t
       IN /\ batch_buffer' = [batch_buffer EXCEPT ![id] = r.batch]
          /\ title_sequence' = [title_sequence EXCEPT ![id] = r.title_seq]
          /\ title_buffer' = [title_buffer EXCEPT ![id] = r.title_buf]
          /\ events' = [events EXCEPT ![id] =
                           @ \o [k \in 1..Len(r.titles) |->
                                    TitleEv(Strip(r.titles[k]))]]
    /\ buffer' = [buffer EXCEPT ![id] = <<>>]
    /\ rpc' = [rpc EXCEPT ![id] = "batch"]
    /\ UNCHANGED <<storeVars, instVars, ptyVars, elapsed, wpc,
                   createVars, callVars, sideVars>>

\* core.rs:333-339: process_for_title on buffer[0..n].
ReaderTitle(id) ==
    /\ rpc[id] = "title"
    /\ LET r == process_for_title(buffer[id], batch_buffer[id],
                                  title_sequence[id], title_buffer[id])
       IN /\ batch_buffer' = [batch_buffer EXCEPT ![id] = r.batch]
          /\ title_sequence' = [title_sequence EXCEPT ![id] = r.title_seq]
          /\ title_buffer' = [title_buffer EXCEPT ![id] = r.title_buf]
          /\ events' = [events EXCEPT ![id] =
                           @ \o [k \in 1..Len(r.titles) |->
                                    TitleEv(r.titles[k])]]
    /\ buffer' = [buffer EXCEPT ![id] = <<>>]
    /\ rpc' = [rpc EXCEPT ![id] = "batch"]
    /\ UNCHANGED <<storeVars, instVars, ptyVars, elapsed, wpc,
                   createVars, callVars, sideVars>>

\* core.rs:341-342: send_batch(&mut batch_buffer, false), first half.
ReaderBatch(id) ==
    /\ rpc[id] = "batch"
    /\ SendBatchCount(id, FALSE, "out", "read")
    /\ UNCHANGED <<storeVars, exit_event_sent, child, writer, kills, waits,
                   events, ptyVars, buffer, batch_buffer, title_sequence,
                   title_buffer, elapsed, wpc, createVars, callVars,
                   sideVars>>

\* send_batch(&mut batch_buffer, false), second half; back to the read.
ReaderOut(id) ==
    /\ rpc[id] = "out"
    /\ SendBatchEmit(id, "read")
    /\ UNCHANGED <<storeVars, instVars, ptyVars, buffer, title_sequence,
                   title_buffer, wpc, createVars, callVars, sideVars>>

\* (ReaderFlushSendsTitle: a reader that sends the text of a title sequence
\* left open at the end of the stream.)
ReaderFlushSendsTitle(id) ==
    /\ rpc[id] = "flush"
    /\ SendBatchCount(id, TRUE, "lastout", "load")
    /\ events' = [events EXCEPT ![id] =
                     IF title_sequence[id]
                     THEN Append(@, TitleEv(title_buffer[id])) ELSE @]
    /\ UNCHANGED <<storeVars, exit_event_sent, child, writer, kills, waits,
                   ptyVars, buffer, batch_buffer, title_sequence,
                   title_buffer, elapsed, wpc, createVars, callVars,
                   sideVars>>

\* core.rs:321 and 348: send_batch(&mut batch_buffer, true), first half.
ReaderFlush(id) ==
    /\ rpc[id] = "flush"
    /\ SendBatchCount(id, TRUE, "lastout", "load")
    /\ UNCHANGED <<storeVars, exit_event_sent, child, writer, kills, waits,
                   events, ptyVars, buffer, batch_buffer, title_sequence,
                   title_buffer, elapsed, wpc, createVars, callVars,
                   sideVars>>

\* send_batch(&mut batch_buffer, true), second half; then break.
ReaderLastOut(id) ==
    /\ rpc[id] = "lastout"
    /\ SendBatchEmit(id, "load")
    /\ UNCHANGED <<storeVars, instVars, ptyVars, buffer, title_sequence,
                   title_buffer, wpc, createVars, callVars, sideVars>>

\* core.rs:355: if !exit_event_sent_clone.load(SeqCst).
ReaderLoad(id) ==
    /\ rpc[id] = "load"
    /\ rpc' = [rpc EXCEPT ![id] =
                  IF exit_event_sent[id] THEN "done" ELSE "cas"]
    /\ UNCHANGED <<storeVars, instVars, events, ptyVars, buffer,
                   batch_buffer, title_sequence, title_buffer, elapsed, wpc,
                   createVars, callVars, sideVars>>

\* compare_exchange(false, true, SeqCst, SeqCst) on the exit flag: the new
\* value of the flag, and whether the exchange succeeded (CasNewKeeps: an
\* exchange that stores nothing; CasOkAlways: an exchange that reports
\* success whatever the flag held).
CasNewKeeps(flag) == flag

CasNew(flag) == TRUE

CasOkAlways(flag) == TRUE

CasOk(flag) == flag = FALSE

\* core.rs:356-358: the reader's claim of the exit flag.
ReaderCas(id) ==
    /\ rpc[id] = "cas"
    /\ exit_event_sent' =
           [exit_event_sent EXCEPT ![id] = CasNew(exit_event_sent[id])]
    /\ rpc' = [rpc EXCEPT ![id] =
                  IF CasOk(exit_event_sent[id]) THEN "send" ELSE "done"]
    /\ UNCHANGED <<storeVars, child, writer, bytes_read, messages_sent,
                   kills, waits, events, ptyVars, buffer, batch_buffer,
                   title_sequence, title_buffer, elapsed, wpc, createVars,
                   callVars, sideVars>>

\* core.rs:361: the status of the reader's Exit event, a fixed text.
\* (ReaderTextStatus: the text of an exit status, as the watcher sends.)
ReaderTextStatus == "ExitStatus"

ReaderText == "Reader thread ended"

\* core.rs:360-367: the reader's Exit event; the closure ends there, with
\* no access to the store. (ReaderSendRemoves: the reader cleans up as the
\* exit watcher does at core.rs:473.)
ReaderSendRemoves(id) ==
    /\ rpc[id] = "send"
    /\ lock = "free"
    /\ events' = [events EXCEPT ![id] =
                     Append(@, ExitEv(ReaderText))]
    /\ store' = store \ {id}
    /\ rpc' = [rpc EXCEPT ![id] = "done"]
    /\ UNCHANGED <<lock, removals, instVars, ptyVars, buffer, batch_buffer,
                   title_sequence, title_buffer, elapsed, wpc, createVars,
                   callVars, sideVars>>

ReaderSend(id) ==
    /\ rpc[id] = "send"
    /\ events' = [events EXCEPT ![id] =
                     Append(@, ExitEv(ReaderText))]
    /\ rpc' = [rpc EXCEPT ![id] = "done"]
    /\ UNCHANGED <<storeVars, instVars, ptyVars, buffer, batch_buffer,
                   title_sequence, title_buffer, elapsed, wpc, createVars,
                   callVars, sideVars>>

\* Time passes for the reader's timer (Instant::now() - last_send) while the
\* thread is blocked in reader.read; the steps between two reads take no time.
Tick(id) ==
    /\ rpc[id] = "read"
    /\ elapsed[id] < BatchTimeout
    /\ elapsed' = [elapsed EXCEPT ![id] = @ + 1]
    /\ UNCHANGED <<storeVars, instVars, events, ptyVars, rpc, buffer,
                   batch_buffer, title_sequence, title_buffer, wpc,
                   createVars, callVars, sideVars>>

\* ------------------------------------------------------------- the child

\* The child writes tok to its terminal.
ChildWrite(id, tok, max) ==
    /\ child[id] = "running"
    /\ wrote[id] < max
    /\ Len(raw[id]) + Len(pending[id]) + Len(tok) <= MaxStream
    /\ pending' = [pending EXCEPT ![id] = @ \o tok]
    /\ wrote' = [wrote EXCEPT ![id] = @ + 1]
    /\ UNCHANGED <<storeVars, instVars, events, raw, readerVars, wpc,
                   createVars, callVars, sideVars>>

\* The child exits on its own; the slave side closes with it.
ChildExit(id) ==
    /\ child[id] = "running"
    /\ child' = [child EXCEPT ![id] = "exited"]
    /\ UNCHANGED <<storeVars, exit_event_sent, writer, bytes_read,
                   messages_sent, kills, waits, events, ptyVars, readerVars,
                   wpc, createVars, callVars, sideVars>>

\* ------------------------------------------------------------ the store

\* store::remove (core.rs:131-134): the map without id. The caller gets
\* Some(instance) exactly when id was in the map. (StoreRemoveKeeps: a lookup
\* that hands out the instance and leaves the entry in the map.)
StoreRemoveKeeps(s, id) == s

StoreRemove(s, id) == s \ {id}

\* store::add (core.rs:105-108).
StoreAdd(s, id) == s \cup {id}

\* ------------------------------------------------------------ create_pty

\* core.rs:168-176: openpty(size), which may fail.
CreateOpen(id) ==
    /\ crpc[id] = "start"
    /\ \E ok \in BOOLEAN :
        IF ok THEN /\ crpc' = [crpc EXCEPT ![id] = "spawn"]
                   /\ size' = [size EXCEPT ![id] = OpenSize]
                   /\ UNCHANGED crres
        ELSE /\ crpc' = [crpc EXCEPT ![id] = "done"]
             /\ crres' = [crres EXCEPT ![id] = "Err"]
             /\ UNCHANGED size
    /\ UNCHANGED <<storeVars, instVars, events, ptyVars, readerVars, wpc,
                   callVars, bytes_written, written, cdata, csent, csize,
                   mpc, metrics_interval_ms, shellVars>>

\* core.rs:198-206: spawn_command, which may fail; the slave is dropped.
CreateSpawn(id) ==
    /\ crpc[id] = "spawn"
    /\ \E ok \in BOOLEAN :
        IF ok THEN /\ crpc' = [crpc EXCEPT ![id] = "clone"]
                   /\ child' = [child EXCEPT ![id] = "running"]
                   /\ UNCHANGED crres
        ELSE /\ crpc' = [crpc EXCEPT ![id] = "done"]
             /\ crres' = [crres EXCEPT ![id] = "Err"]
             /\ UNCHANGED child
    /\ UNCHANGED <<storeVars, exit_event_sent, writer, bytes_read,
                   messages_sent, kills, waits, events, ptyVars, readerVars,
                   wpc, callVars, sideVars>>

\* core.rs:216-219: try_clone_reader and take_writer, each of which may fail.
\* (CreateHandlesSpawnsFirst: the reader thread is spawned as soon as the
\* reader is cloned, before take_writer.)
CreateHandlesSpawnsFirst(id) ==
    /\ crpc[id] \in {"clone", "take"}
    /\ \E ok \in BOOLEAN :
        IF ok THEN /\ crpc' = [crpc EXCEPT ![id] =
                                  IF @ = "clone" THEN "take" ELSE "reader"]
                   /\ rpc' = [rpc EXCEPT ![id] = "read"]
                   /\ UNCHANGED crres
        ELSE /\ crpc' = [crpc EXCEPT ![id] = "done"]
             /\ crres' = [crres EXCEPT ![id] = "Err"]
             /\ UNCHANGED rpc
    /\ UNCHANGED <<storeVars, instVars, events, ptyVars, buffer,
                   batch_buffer, title_sequence, title_buffer, elapsed, wpc,
                   callVars, sideVars>>

CreateHandles(id) ==
    /\ crpc[id] \in {"clone", "take"}
    /\ \E ok \in BOOLEAN :
        IF ok THEN /\ crpc' = [crpc EXCEPT ![id] =
                                  IF @ = "clone" THEN "take" ELSE "reader"]
                   /\ UNCHANGED crres
        ELSE /\ crpc' = [crpc EXCEPT ![id] = "done"]
             /\ crres' = [crres EXCEPT ![id] = "Err"]
    /\ UNCHANGED <<storeVars, instVars, events, ptyVars, readerVars, wpc,
                   callVars, sideVars>>

\* core.rs:227: thread::spawn of the reader thread.
CreateReader(id) ==
    /\ crpc[id] = "reader"
    /\ rpc' = [rpc EXCEPT ![id] = "read"]
    /\ crpc' = [crpc EXCEPT ![id] = "add"]
    /\ UNCHANGED <<storeVars, instVars, events, ptyVars, buffer,
                   batch_buffer, title_sequence, title_buffer, elapsed, wpc,
                   crres, callVars, sideVars>>

\* core.rs:370-382: store::add of the PtyInstance.
CreateAdd(id) ==
    /\ crpc[id] = "add"
    /\ lock = "free"
    /\ store' = StoreAdd(store, id)
    /\ writer' = [writer EXCEPT ![id] = "held"]
    /\ crpc' = [crpc EXCEPT ![id] = "metrics"]
    /\ UNCHANGED <<lock, removals, exit_event_sent, child, bytes_read,
                   messages_sent, kills, waits, events, ptyVars, readerVars,
                   wpc, crres, callVars, sideVars>>

\* core.rs:384-425: thread::spawn of the metrics thread, if an interval was
\* given.
CreateMetrics(id) ==
    /\ crpc[id] = "metrics"
    /\ mpc' = [mpc EXCEPT ![id] =
                  IF metrics_interval_ms = "Some" THEN "sleep" ELSE @]
    /\ crpc' = [crpc EXCEPT ![id] = "watcher"]
    /\ UNCHANGED <<storeVars, instVars, events, ptyVars, readerVars, wpc,
                   crres, callVars, ioVars, metrics_interval_ms, shellVars>>

\* core.rs:431: thread::spawn of the exit watcher.
CreateWatcher(id) ==
    /\ crpc[id] = "watcher"
    /\ wpc' = [wpc EXCEPT ![id] = "sleep"]
    /\ crpc' = [crpc EXCEPT ![id] = "handle"]
    /\ UNCHANGED <<storeVars, instVars, events, ptyVars, readerVars, crres,
                   callVars, sideVars>>

\* core.rs:505-512: the watcher's handle is stored if the instance is still
\* there, and the id is returned.
CreateReturn(id) ==
    /\ crpc[id] = "handle"
    /\ lock = "free"
    /\ crpc' = [crpc EXCEPT ![id] = "done"]
    /\ crres' = [crres EXCEPT ![id] = "Ok"]
    /\ UNCHANGED <<storeVars, instVars, events, ptyVars, readerVars, wpc,
                   callVars, sideVars>>

Create(id) ==
    \/ CreateOpen(id)
    \/ CreateSpawn(id)
    \/ CreateHandles(id)
    \/ CreateReader(id)
    \/ CreateAdd(id)
    \/ CreateMetrics(id)
    \/ CreateWatcher(id)
    \/ CreateReturn(id)

\* ------------------------------------------- exit watcher (ExitWatcher)

WatcherName(id) == "watcher " \o id

\* core.rs:497-501: with the id not in the store the watcher breaks out of
\* its loop. (AfterNotFoundCleans: it goes on to the cleanup of core.rs:473.)
AfterNotFoundCleans == "remove"

AfterNotFound == "done"

\* core.rs:436-448 and 485-501: one poll. With the session gone the thread
\* ends. With the child exited, try_wait gives Ok(Some(status)) and the
\* thread goes on holding the store's lock. In the arms Ok(None) and Err(e)
\* the lock is dropped and the thread sleeps: nothing changes.
\* (WatcherPollUnlocked: a watcher that does not keep the guard.)
WatcherPollUnlocked(id) ==
    /\ wpc[id] = "sleep"
    /\ IF id \notin store
       THEN wpc' = [wpc EXCEPT ![id] = AfterNotFound]
       ELSE /\ child[id] = "exited"
            /\ wpc' = [wpc EXCEPT ![id] = "load"]
    /\ UNCHANGED <<store, lock, removals, instVars, events, ptyVars,
                   readerVars, createVars, callVars, sideVars>>

WatcherPoll(id) ==
    /\ wpc[id] = "sleep"
    /\ lock = "free"
    /\ IF id \notin store
       THEN /\ wpc' = [wpc EXCEPT ![id] = AfterNotFound]
            /\ UNCHANGED lock
       ELSE /\ child[id] = "exited"
            /\ wpc' = [wpc EXCEPT ![id] = "load"]
            /\ lock' = WatcherName(id)
    /\ UNCHANGED <<store, removals, instVars, events, ptyVars, readerVars,
                   createVars, callVars, sideVars>>

\* core.rs:454-473: with the flag found set, or the exchange lost, the
\* watcher sends nothing and goes on to drop(store) and store::remove.
\* (AfterLostClaimEnds: the thread ends there instead.)
AfterLostClaimEnds == "done"

AfterLostClaim == "remove"

\* core.rs:454: if !pty.exit_event_sent.load(SeqCst); otherwise on to
\* drop(store) at core.rs:470.
WatcherLoad(id) ==
    /\ wpc[id] = "load"
    /\ IF exit_event_sent[id]
       THEN /\ wpc' = [wpc EXCEPT ![id] = AfterLostClaim]
            /\ lock' = "free"
       ELSE /\ wpc' = [wpc EXCEPT ![id] = "cas"]
            /\ UNCHANGED lock
    /\ UNCHANGED <<store, removals, instVars, events, ptyVars, readerVars,
                   createVars, callVars, sideVars>>

\* core.rs:455-458: the watcher's claim of the exit flag.
WatcherCas(id) ==
    /\ wpc[id] = "cas"
    /\ exit_event_sent' =
           [exit_event_sent EXCEPT ![id] = CasNew(exit_event_sent[id])]
    /\ IF CasOk(exit_event_sent[id])
       THEN /\ wpc' = [wpc EXCEPT ![id] = "send"]
            /\ UNCHANGED lock
       ELSE /\ wpc' = [wpc EXCEPT ![id] = AfterLostClaim]
            /\ lock' = "free"
    /\ UNCHANGED <<store, removals, child, writer, bytes_read,
                   messages_sent, kills, waits, events, ptyVars, readerVars,
                   createVars, callVars, sideVars>>

\* core.rs:462: format!("{:?}", status), the text of the child's exit
\* status. (StatusTextFixed: the fixed text of the reader's Exit event.)
StatusTextFixed == "Reader thread ended"

StatusText == "ExitStatus"

\* core.rs:460-470: the watcher's Exit event, then drop(store).
WatcherSend(id) ==
    /\ wpc[id] = "send"
    /\ events' = [events EXCEPT ![id] = Append(@, ExitEv(StatusText))]
    /\ wpc' = [wpc EXCEPT ![id] = "remove"]
    /\ lock' = "free"
    /\ UNCHANGED <<store, removals, instVars, ptyVars, readerVars,
                   createVars, callVars, sideVars>>

\* core.rs:472-483: store::remove; a removed instance is dropped, and its
\* writer with it.
WatcherRemove(id) ==
    /\ wpc[id] = "remove"
    /\ lock = "free"
    /\ store' = StoreRemove(store, id)
    /\ removals' = [removals EXCEPT ![id] =
                       IF id \in store THEN Append(@, "exit_watcher") ELSE @]
    /\ writer' = [writer EXCEPT ![id] =
                     IF id \in store THEN "dropped" ELSE @]
    /\ wpc' = [wpc EXCEPT ![id] = "done"]
    /\ UNCHANGED <<lock, exit_event_sent, child, bytes_read, messages_sent,
                   kills, waits, events, ptyVars, readerVars, createVars,
                   callVars, sideVars>>

Watcher(id) ==
    \/ WatcherPoll(id)
    \/ WatcherLoad(id)
    \/ WatcherCas(id)
    \/ WatcherSend(id)
    \/ WatcherRemove(id)

\* ------------------------------------------------------- frontend commands

\* A frontend task invokes the command op on the id t: it is not inside a
\* command, the budget of commands is not used up, and a real id is known
\* only once create_pty has returned it.
Invoked(c, op, t, pc) ==
    /\ cpc[c] \in {"idle", "ret"}
    /\ ncalls < MaxCalls
    /\ t \in Ids => crres[t] = "Ok"
    /\ cop' = [cop EXCEPT ![c] = op]
    /\ carg' = [carg EXCEPT ![c] = t]
    /\ cres' = [cres EXCEPT ![c] = "none"]
    /\ creg' = [creg EXCEPT ![c] = t \in store]
    /\ cdet' = [cdet EXCEPT ![c] = FALSE]
    /\ cpc' = [cpc EXCEPT ![c] = pc]
    /\ ncalls' = ncalls + 1

Invoke(c, op, t, pc) ==
    /\ Invoked(c, op, t, pc)
    /\ UNCHANGED <<storeVars, instVars, events, ptyVars, readerVars, wpc,
                   createVars, sideVars>>

\* ------------------------------------------------------------ destroy_pty

\* core.rs:579: destroy_pty(pty_id) is invoked.
DestroyCall(c, t) == Invoke(c, "destroy", t, "d_remove")

\* What destroy_pty returns when the id is not in the store (core.rs:616-620).
\* (AbsentResultErr: the not-found error that write_pty and resize_pty give.)
AbsentResultErr == "Err"

AbsentResult == "Ok"

\* core.rs:580: store::remove(&pty_id), and the else arm when it gives None.
DestroyRemove(c) ==
    /\ cpc[c] = "d_remove"
    /\ lock = "free"
    /\ IF carg[c] \in store
       THEN /\ store' = StoreRemove(store, carg[c])
            /\ removals' = [removals EXCEPT ![carg[c]] =
                                Append(@, "destroy_pty")]
            /\ cdet' = [cdet EXCEPT ![c] = TRUE]
            /\ cpc' = [cpc EXCEPT ![c] = "d_flag"]
            /\ UNCHANGED cres
       ELSE /\ cpc' = [cpc EXCEPT ![c] = "ret"]
            /\ cres' = [cres EXCEPT ![c] = AbsentResult]
            /\ UNCHANGED <<store, removals, cdet>>
    /\ UNCHANGED <<lock, instVars, events, ptyVars, readerVars, wpc,
                   createVars, cop, carg, creg, ncalls, sideVars>>

\* core.rs:582: pty.exit_event_sent.store(true, SeqCst).
DestroyFlag(c) ==
    /\ cpc[c] = "d_flag"
    /\ exit_event_sent' = [exit_event_sent EXCEPT ![carg[c]] = TRUE]
    /\ cpc' = [cpc EXCEPT ![c] = "d_kill"]
    /\ UNCHANGED <<storeVars, child, writer, bytes_read, messages_sent,
                   kills, waits, events, ptyVars, readerVars, wpc,
                   createVars, cop, carg, cres, creg, cdet, ncalls, sideVars>>

\* Where destroy_pty goes after child.kill(): on to child.wait(), whether
\* kill succeeded or not (core.rs:585-591). (AfterKillPropagates: a failed
\* kill is returned to the caller, as write_pty does with its errors.)
AfterKillPropagates(ok) == IF ok THEN "d_wait" ELSE "ret"

AfterKill(ok) == "d_wait"

\* core.rs:585-588: pty.child.kill(), which may fail and is then ignored.
DestroyKill(c) ==
    /\ cpc[c] = "d_kill"
    /\ kills' = [kills EXCEPT ![carg[c]] = @ + 1]
    /\ \E ok \in BOOLEAN :
        /\ child' = [child EXCEPT ![carg[c]] =
                        IF ok /\ @ = "running" THEN "exited" ELSE @]
        /\ cpc' = [cpc EXCEPT ![c] = AfterKill(ok)]
        /\ cres' = [cres EXCEPT ![c] =
                       IF AfterKill(ok) = "ret" THEN "Err" ELSE @]
    /\ UNCHANGED <<storeVars, exit_event_sent, writer, bytes_read,
                   messages_sent, waits, events, ptyVars, readerVars, wpc,
                   createVars, cop, carg, creg, cdet, ncalls, sideVars>>

\* core.rs:591-600: pty.child.wait() blocks until the child has exited, or
\* fails; both results are only logged.
DestroyWait(c) ==
    /\ cpc[c] = "d_wait"
    /\ \E ok \in BOOLEAN : ok => child[carg[c]] = "exited"
    /\ waits' = [waits EXCEPT ![carg[c]] = @ + 1]
    /\ cpc' = [cpc EXCEPT ![c] = "d_drop"]
    /\ UNCHANGED <<storeVars, exit_event_sent, child, writer, bytes_read,
                   messages_sent, kills, events, ptyVars, readerVars, wpc,
                   createVars, cop, carg, cres, creg, cdet, ncalls, sideVars>>

\* core.rs:602-615: the thread handles are dropped, the writer is dropped,
\* Ok(()) is returned.
DestroyDrop(c) ==
    /\ cpc[c] = "d_drop"
    /\ writer' = [writer EXCEPT ![carg[c]] = "dropped"]
    /\ cpc' = [cpc EXCEPT ![c] = "ret"]
    /\ cres' = [cres EXCEPT ![c] = "Ok"]
    /\ UNCHANGED <<storeVars, exit_event_sent, child, bytes_read,
                   messages_sent, kills, waits, events, ptyVars, readerVars,
                   wpc, createVars, cop, carg, creg, cdet, ncalls, sideVars>>

Destroy(c) ==
    \/ \E t \in Targets : DestroyCall(c, t)
    \/ DestroyRemove(c)
    \/ DestroyFlag(c)
    \/ DestroyKill(c)
    \/ DestroyWait(c)
    \/ DestroyDrop(c)

\* ----------------------------------------------------------- is_pty_alive

\* core.rs:625: is_pty_alive(pty_id) is invoked.
IsAliveCall(c, t) == Invoke(c, "is_alive", t, "a_lookup")

\* core.rs:630: the exit flag decides that the PTY is not alive.
\* (FlagIgnored: the test left out.)
FlagIgnored(flag) == FALSE

FlagSaysExited(flag) == flag

\* core.rs:626-632 and 644-647: the lookup and the test of the exit flag.
IsAliveLookup(c) ==
    /\ cpc[c] = "a_lookup"
    /\ lock = "free"
    /\ IF carg[c] \notin store \/ FlagSaysExited(exit_event_sent[carg[c]])
       THEN /\ cpc' = [cpc EXCEPT ![c] = "ret"]
            /\ cres' = [cres EXCEPT ![c] = "false"]
            /\ UNCHANGED lock
       ELSE /\ cpc' = [cpc EXCEPT ![c] = "a_probe"]
            /\ lock' = c
            /\ UNCHANGED cres
    /\ UNCHANGED <<store, removals, instVars, events, ptyVars, readerVars,
                   wpc, createVars, cop, carg, creg, cdet, ncalls, sideVars>>

\* core.rs:635-643: pty.child.try_wait() under the store's lock.
IsAliveProbe(c) ==
    /\ cpc[c] = "a_probe"
    /\ \E ok \in BOOLEAN :
        IF ~ok
        THEN /\ cres' = [cres EXCEPT ![c] = "Err"]
             /\ UNCHANGED exit_event_sent
        ELSE IF child[carg[c]] = "exited"
        THEN /\ cres' = [cres EXCEPT ![c] = "false"]
             /\ exit_event_sent' = [exit_event_sent EXCEPT ![carg[c]] = TRUE]
        ELSE /\ cres' = [cres EXCEPT ![c] = "true"]
             /\ UNCHANGED exit_event_sent
    /\ cpc' = [cpc EXCEPT ![c] = "ret"]
    /\ lock' = "free"
    /\ UNCHANGED <<store, removals, child, writer, bytes_read, messages_sent,
                   kills, waits, events, ptyVars, readerVars, wpc,
                   createVars, cop, carg, creg, cdet, ncalls, sideVars>>

IsAlive(c) ==
    \/ \E t \in Targets : IsAliveCall(c, t)
    \/ IsAliveLookup(c)
    \/ IsAliveProbe(c)

\* ------------------------------------------- command resolution (utils.rs)

\* The operating systems get_default_shell has a #[cfg] block for.
Platforms == {"linux", "macos", "windows"}

\* The SHELL variable: set to a string, set to bytes that are not valid
\* Unicode, or not set. env::var gives Ok(value) in the first case only.
ShellEnvs ==
    {<<"Ok", "/usr/bin/fish">>, <<"Ok", "">>,
     <<"NotUnicode", "/usr/bin/f\\xFFsh">>, <<"NotPresent", "">>}

\* utils.rs:42-49: which::which("pwsh.exe"), which::which("powershell.exe").
WhichPwsh == "which pwsh.exe"
WhichPowershell == "which powershell.exe"

\* utils.rs:58-68 and 71: pwsh_paths.iter().chain(powershell_paths.iter()).
InstallPaths ==
    <<"%ProgramFiles%\\PowerShell\\7\\pwsh.exe",
      "%ProgramFiles%\\PowerShell\\7-preview\\pwsh.exe",
      "%ProgramFiles%\\PowerShell\\6\\pwsh.exe",
      "C:\\Windows\\System32\\WindowsPowerShell\\v1.0\\powershell.exe",
      "%ProgramFiles(x86)%\\PowerShell\\powershell.exe">>

SearchOrder == <<WhichPwsh, WhichPowershell>> \o InstallPaths

Candidates == {SearchOrder[i] : i \in 1..Len(SearchOrder)}

\* utils.rs:40-79: the first candidate that exists, as <<path>>, or <<>> for
\* Err("PowerShell not found").
RECURSIVE FindFrom(_, _)
FindFrom(i, exist) ==
    IF i > Len(SearchOrder) THEN <<>>
    ELSE IF SearchOrder[i] \in exist THEN <<SearchOrder[i]>>
    ELSE FindFrom(i + 1, exist)

find_powershell(exist) == FindFrom(1, exist)

\* utils.rs:6-36: get_default_shell. (get_default_shell_env_first: SHELL is
\* looked at on every platform, Windows included, and whenever it is set.)
get_default_shell_env_first(os, env, exist) ==
    IF env[1] # "NotPresent" THEN env[2]
    ELSE IF os = "windows"
    THEN IF find_powershell(exist) # <<>>
         THEN find_powershell(exist)[1] ELSE "cmd.exe"
    ELSE IF os = "linux" THEN "bash" ELSE "zsh"

get_default_shell(os, env, exist) ==
    IF os = "windows"
    THEN IF find_powershell(exist) # <<>>
         THEN find_powershell(exist)[1] ELSE "cmd.exe"
    ELSE IF os = "linux"
    THEN IF env[1] = "Ok" THEN env[2] ELSE "bash"
    ELSE IF env[1] = "Ok" THEN env[2] ELSE "zsh"

\* core.rs:178-184: the command create_pty builds cmd_builder from.
ResolveCommand ==
    /\ resolved = <<>>
    /\ resolved' =
           <<IF command # <<>> THEN command[1]
             ELSE get_default_shell(platform, shell_env, found)>>
    /\ UNCHANGED <<storeVars, instVars, events, ptyVars, readerVars, wpc,
                   createVars, callVars, ioVars, mpc, metrics_interval_ms,
                   platform, command, shell_env, found, auxVars>>

\* -------------------------------------------------------------- write_pty

\* What write_pty and resize_pty return when store::get_mut / store::get
\* gives None (core.rs:551-553, 572-574). (NotFoundIsOk: the success that
\* destroy_pty returns in that case.)
NotFoundIsOk == "Ok"

NotFound == "NotFound"

\* store::get_mut and store::get hand their caller the MutexGuard of the
\* store when the id is in the map (core.rs:111-128): the caller holds the
\* lock until it drops the guard. (GuardDropped: the guard is dropped before
\* the function returns.)
GuardDropped(c) == "free"

GuardHolder(c) == c

\* The data of the n-th command: DataLen bytes that name the command, so
\* that the bytes of two payloads can be told apart on the PTY.
DataOf(n) == [k \in 1..DataLen |-> n]

\* core.rs:517: write_pty(pty_id, data) is invoked.
WriteCall(c, t) ==
    /\ Invoked(c, "write", t, "w_lookup")
    /\ cdata' = [cdata EXCEPT ![c] = DataOf(ncalls + 1)]
    /\ csent' = [csent EXCEPT ![c] = 0]
    /\ UNCHANGED <<storeVars, instVars, events, ptyVars, readerVars, wpc,
                   createVars, bytes_written, written, size, csize, mpc,
                   metrics_interval_ms, shellVars>>

\* core.rs:518 and 551-553: store::get_mut(&pty_id) takes the store's lock;
\* with the id in the map the guard is kept, otherwise the lock is released
\* and the not-found error is returned.
WriteLookup(c) ==
    /\ cpc[c] = "w_lookup"
    /\ lock = "free"
    /\ IF carg[c] \in store
       THEN /\ lock' = GuardHolder(c)
            /\ cpc' = [cpc EXCEPT ![c] = "w_write"]
            /\ UNCHANGED cres
       ELSE /\ cpc' = [cpc EXCEPT ![c] = "ret"]
            /\ cres' = [cres EXCEPT ![c] = NotFound]
            /\ UNCHANGED lock
    /\ UNCHANGED <<store, removals, instVars, events, ptyVars, readerVars,
                   wpc, createVars, cop, carg, creg, cdet, ncalls, sideVars>>

\* core.rs:519-525 and 536-539: store.get_mut(&pty_id).unwrap() under the
\* guard, then write_all(data.as_bytes()) on the stored writer, one byte at
\* a step; a write may fail, and the error is returned with what was written
\* so far left on the PTY. Without a stored writer take_writer is tried
\* again, which fails for a writer that was taken at core.rs:219.
WriteAll(c) ==
    /\ cpc[c] = "w_write"
    /\ IF carg[c] \notin store
       THEN /\ cres' = [cres EXCEPT ![c] = "panic"]
            /\ cpc' = [cpc EXCEPT ![c] = "ret"]
            /\ lock' = "free"
            /\ UNCHANGED <<written, csent>>
       ELSE IF writer[carg[c]] # "held"
       THEN /\ cres' = [cres EXCEPT ![c] = "Err"]
            /\ cpc' = [cpc EXCEPT ![c] = "ret"]
            /\ lock' = "free"
            /\ UNCHANGED <<written, csent>>
       ELSE \E ok \in BOOLEAN :
            IF ok
            THEN /\ written' = [written EXCEPT ![carg[c]] =
                                   Append(@, cdata[c][csent[c] + 1])]
                 /\ csent' = [csent EXCEPT ![c] = @ + 1]
                 /\ cpc' = [cpc EXCEPT ![c] =
                               IF csent[c] + 1 = Len(cdata[c])
                               THEN "w_flush" ELSE "w_write"]
                 /\ UNCHANGED <<cres, lock>>
            ELSE /\ cres' = [cres EXCEPT ![c] = "Err"]
                 /\ cpc' = [cpc EXCEPT ![c] = "ret"]
                 /\ lock' = "free"
                 /\ UNCHANGED <<written, csent>>
    /\ UNCHANGED <<store, removals, instVars, events, ptyVars, readerVars,
                   wpc, createVars, cop, carg, creg, cdet, ncalls,
                   bytes_written, size, cdata, csize, mpc,
                   metrics_interval_ms, shellVars>>

\* core.rs:526-533: writer.flush(), which may fail; then bytes_written is
\* advanced by data.len(), Ok(()) is returned and the guard is dropped.
\* (WriteFlushCountsFirst: the counter is advanced before the flush.)
WriteFlushCountsFirst(c) ==
    /\ cpc[c] = "w_flush"
    /\ bytes_written' = [bytes_written EXCEPT ![carg[c]] =
                             @ + Len(cdata[c])]
    /\ \E ok \in BOOLEAN :
        cres' = [cres EXCEPT ![c] = IF ok THEN "Ok" ELSE "Err"]
    /\ cpc' = [cpc EXCEPT ![c] = "ret"]
    /\ lock' = "free"
    /\ UNCHANGED <<store, removals, instVars, events, ptyVars, readerVars,
                   wpc, createVars, cop, carg, creg, cdet, ncalls, written,
                   size, cdata, csent, csize, mpc, metrics_interval_ms,
                   shellVars>>

WriteFlush(c) ==
    /\ cpc[c] = "w_flush"
    /\ \E ok \in BOOLEAN :
        IF ok
        THEN /\ bytes_written' = [bytes_written EXCEPT ![carg[c]] =
                                     @ + Len(cdata[c])]
             /\ cres' = [cres EXCEPT ![c] = "Ok"]
        ELSE /\ cres' = [cres EXCEPT ![c] = "Err"]
             /\ UNCHANGED bytes_written
    /\ cpc' = [cpc EXCEPT ![c] = "ret"]
    /\ lock' = "free"
    /\ UNCHANGED <<store, removals, instVars, events, ptyVars, readerVars,
                   wpc, createVars, cop, carg, creg, cdet, ncalls, written,
                   size, cdata, csent, csize, mpc, metrics_interval_ms,
                   shellVars>>

Write(c) ==
    \/ \E t \in Targets : WriteCall(c, t)
    \/ WriteLookup(c)
    \/ WriteAll(c)
    \/ WriteFlush(c)

\* ------------------------------------------------------------- resize_pty

\* core.rs:558: resize_pty(pty_id, rows, cols) is invoked.
ResizeCall(c, t, sz) ==
    /\ Invoked(c, "resize", t, "r_lookup")
    /\ csize' = [csize EXCEPT ![c] = sz]
    /\ UNCHANGED <<storeVars, instVars, events, ptyVars, readerVars, wpc,
                   createVars, bytes_written, written, size, cdata, csent,
                   mpc, metrics_interval_ms, shellVars>>

\* core.rs:559 and 572-574: store::get(&pty_id), as in write_pty.
ResizeLookup(c) ==
    /\ cpc[c] = "r_lookup"
    /\ lock = "free"
    /\ IF carg[c] \in store
       THEN /\ lock' = GuardHolder(c)
            /\ cpc' = [cpc EXCEPT ![c] = "r_resize"]
            /\ UNCHANGED cres
       ELSE /\ cpc' = [cpc EXCEPT ![c] = "ret"]
            /\ cres' = [cres EXCEPT ![c] = NotFound]
            /\ UNCHANGED lock
    /\ UNCHANGED <<store, removals, instVars, events, ptyVars, readerVars,
                   wpc, createVars, cop, carg, creg, cdet, ncalls, sideVars>>

\* core.rs:560-571: store.get(&pty_id).unwrap() under the guard, then
\* pty.master.resize(size), which may fail; the guard is dropped.
ResizeDo(c) ==
    /\ cpc[c] = "r_resize"
    /\ IF carg[c] \notin store
       THEN /\ cres' = [cres EXCEPT ![c] = "panic"]
            /\ UNCHANGED size
       ELSE \E ok \in BOOLEAN :
            IF ok
            THEN /\ size' = [size EXCEPT ![carg[c]] = csize[c]]
                 /\ cres' = [cres EXCEPT ![c] = "Ok"]
            ELSE /\ cres' = [cres EXCEPT ![c] = "Err"]
                 /\ UNCHANGED size
    /\ cpc' = [cpc EXCEPT ![c] = "ret"]
    /\ lock' = "free"
    /\ UNCHANGED <<store, removals, instVars, events, ptyVars, readerVars,
                   wpc, createVars, cop, carg, creg, cdet, ncalls,
                   bytes_written, written, cdata, csent, csize, mpc,
                   metrics_interval_ms, shellVars>>

Resize(c) ==
    \/ \E t \in Targets : \E sz \in NewSizes : ResizeCall(c, t, sz)
    \/ ResizeLookup(c)
    \/ ResizeDo(c)

\* --------------------------------------------------------- metrics thread

MetricsName(id) == "metrics " \o id

\* Number of Metrics events delivered to the session's sink.
MetricsCount(id) ==
    Cardinality({i \in 1..Len(events[id]) : events[id][i].type = "Metrics"})

\* core.rs:393-400 and 419-422: after the sleep, store::get(&metrics_pty_id);
\* with the session gone the thread ends, otherwise it goes on holding the
\* store's lock.
MetricsPoll(id) ==
    /\ mpc[id] = "sleep"
    /\ lock = "free"
    /\ IF id \notin store
       THEN /\ mpc' = [mpc EXCEPT ![id] = "done"]
            /\ UNCHANGED lock
       ELSE /\ MetricsCount(id) < MaxMetrics
            /\ mpc' = [mpc EXCEPT ![id] = "check"]
            /\ lock' = MetricsName(id)
    /\ UNCHANGED <<store, removals, instVars, events, ptyVars, readerVars,
                   wpc, createVars, callVars, ioVars, metrics_interval_ms,
                   shellVars>>

\* core.rs:402-405: with the exit flag set the thread ends and its guard is
\* dropped; otherwise it goes on to the send, holding the guard.
MetricsCheck(id) ==
    /\ mpc[id] = "check"
    /\ IF exit_event_sent[id]
       THEN /\ mpc' = [mpc EXCEPT ![id] = "done"]
            /\ lock' = "free"
       ELSE /\ mpc' = [mpc EXCEPT ![id] = "send"]
            /\ UNCHANGED lock
    /\ UNCHANGED <<store, removals, instVars, events, ptyVars, readerVars,
                   wpc, createVars, callVars, ioVars, metrics_interval_ms,
                   shellVars>>

\* core.rs:407-418: the counters are loaded and the Metrics event is sent;
\* the thread sleeps again, or ends when the send fails. The guard is
\* dropped either way.
MetricsSend(id) ==
    /\ mpc[id] = "send"
    /\ \E ok \in BOOLEAN :
        IF ok
        THEN /\ events' = [events EXCEPT ![id] =
                              Append(@, MetricsEv(bytes_read[id],
                                                  bytes_written[id],
                                                  messages_sent[id]))]
             /\ mpc' = [mpc EXCEPT ![id] = "sleep"]
        ELSE /\ mpc' = [mpc EXCEPT ![id] = "done"]
             /\ UNCHANGED events
    /\ lock' = "free"
    /\ UNCHANGED <<store, removals, instVars, ptyVars, readerVars, wpc,
                   createVars, callVars, ioVars, metrics_interval_ms,
                   shellVars>>

Metrics(id) ==
    \/ MetricsPoll(id)
    \/ MetricsCheck(id)
    \/ MetricsSend(id)

\* ---------------------------------------------------------- initial states

\* Nothing was written or resized, and no command is running.
InitIo ==
    /\ bytes_written = [id \in Ids |-> 0]
    /\ written = [id \in Ids |-> <<>>]
    /\ cdata = [c \in Callers |-> <<>>]
    /\ csent = [c \in Callers |-> 0]
    /\ csize = [c \in Callers |-> <<>>]

\* PtyManager::new() (pty.rs:20-24): an empty map, and no reader task.
InitManagerNew ==
    /\ ptys = {}
    /\ ptys_lock = "free"
    /\ pty_child = [id \in Ids |-> "none"]
    /\ pty_pending = [id \in Ids |-> <<>>]
    /\ pty_wrote = [id \in Ids |-> 0]
    /\ task = [id \in Ids |-> "none"]
    /\ window = [id \in Ids |-> <<>>]
    /\ taken = [id \in Ids |-> <<>>]
    /\ reaped = [id \in Ids |-> <<>>]
    /\ dpc = [c \in Callers |-> "idle"]

\* The fields of Config.shortcuts, in the order validate_shortcuts goes
\* through them.
ShortcutNames ==
    <<"new_tab", "close_tab", "split_vertical", "split_horizontal",
      "focus_next_pane", "focus_previous_pane", "close_pane",
      "reload_config">>

\* Shortcut { key, ctrl: true, shift: true, ..Default::default() }
\* (config.rs:269-316).
CtrlShift(key) ==
    [key |-> key, ctrl |-> TRUE, shift |-> TRUE, alt |-> FALSE,
     meta |-> FALSE]

\* Config::default().shortcuts (config.rs:268-317).
DefaultShortcuts ==
    [n \in {ShortcutNames[i] : i \in 1..Len(ShortcutNames)} |->
        CASE n = "new_tab" -> CtrlShift("t")
          [] n = "close_tab" -> CtrlShift("w")
          [] n = "split_vertical" -> CtrlShift("v")
          [] n = "split_horizontal" -> CtrlShift("h")
          [] n = "focus_next_pane" -> CtrlShift("]")
          [] n = "focus_previous_pane" -> CtrlShift("[")
          [] n = "close_pane" -> CtrlShift("e")
          [] n = "reload_config" -> CtrlShift("r")]

\* The default configuration, not validated yet.
InitConfig ==
    /\ shortcuts = DefaultShortcuts
    /\ edits = 0
    /\ validation = <<>>

\* No create_pty call has failed yet.
InitAux ==
    /\ errs = <<>>
    /\ InitManagerNew
    /\ InitConfig

\* create_pty is called with a command, so that get_default_shell is not
\* reached.
InitCommandGiven ==
    /\ platform = "linux"
    /\ command = <<"echo">>
    /\ shell_env = <<"NotPresent", "">>
    /\ found = {}
    /\ resolved = <<>>
    /\ InitAux

\* ------------------------------------------------------------- PumpSpec

\* The state right after a successful create_pty: the session is registered,
\* the child runs, the reader blocks in its first read.
InitPump ==
    /\ store = Ids
    /\ lock = "free"
    /\ exit_event_sent = [id \in Ids |-> FALSE]
    /\ child = [id \in Ids |-> "running"]
    /\ writer = [id \in Ids |-> "held"]
    /\ bytes_read = [id \in Ids |-> 0]
    /\ messages_sent = [id \in Ids |-> 0]
    /\ events = [id \in Ids |-> <<>>]
    /\ kills = [id \in Ids |-> 0]
    /\ waits = [id \in Ids |-> 0]
    /\ removals = [id \in Ids |-> <<>>]
    /\ pending = [id \in Ids |-> <<>>]
    /\ raw = [id \in Ids |-> <<>>]
    /\ wrote = [id \in Ids |-> 0]
    /\ rpc = [id \in Ids |-> "read"]
    /\ buffer = [id \in Ids |-> <<>>]
    /\ batch_buffer = [id \in Ids |-> <<>>]
    /\ title_sequence = [id \in Ids |-> FALSE]
    /\ title_buffer = [id \in Ids |-> <<>>]
    /\ elapsed = [id \in Ids |-> 0]
    /\ wpc = [id \in Ids |-> "sleep"]
    /\ crpc = [id \in Ids |-> "done"]
    /\ crres = [id \in Ids |-> "Ok"]
    /\ cpc = [c \in Callers |-> "idle"]
    /\ cop = [c \in Callers |-> "none"]
    /\ carg = [c \in Callers |-> Unknown]
    /\ cres = [c \in Callers |-> "none"]
    /\ creg = [c \in Callers |-> FALSE]
    /\ cdet = [c \in Callers |-> FALSE]
    /\ ncalls = 0
    /\ InitIo
    /\ size = [id \in Ids |-> OpenSize]
    /\ mpc = [id \in Ids |-> "idle"]
    /\ metrics_interval_ms = "None"
    /\ InitCommandGiven

Reader(id) ==
    \/ ReaderRead(id)
    \/ ReaderEnd(id)
    \/ ReaderBell(id)
    \/ ReaderTitle(id)
    \/ ReaderBatch(id)
    \/ ReaderOut(id)
    \/ ReaderFlush(id)
    \/ ReaderLastOut(id)
    \/ ReaderLoad(id)
    \/ ReaderCas(id)
    \/ ReaderSend(id)

NextPump ==
    \E id \in Ids :
        \/ Reader(id)
        \/ Tick(id)
        \/ \E tok \in Tokens : ChildWrite(id, tok, MaxWrites)
        \/ ChildExit(id)

PumpSpec == InitPump /\ [][NextPump]_vars

\* ----------------------------------------------------------------- Spec

\* Nothing has been created yet; create_pty is about to be called.
InitSession ==
    /\ store = {}
    /\ lock = "free"
    /\ removals = [id \in Ids |-> <<>>]
    /\ exit_event_sent = [id \in Ids |-> FALSE]
    /\ child = [id \in Ids |-> "none"]
    /\ writer = [id \in Ids |-> "none"]
    /\ bytes_read = [id \in Ids |-> 0]
    /\ messages_sent = [id \in Ids |-> 0]
    /\ events = [id \in Ids |-> <<>>]
    /\ kills = [id \in Ids |-> 0]
    /\ waits = [id \in Ids |-> 0]
    /\ pending = [id \in Ids |-> <<>>]
    /\ raw = [id \in Ids |-> <<>>]
    /\ wrote = [id \in Ids |-> 0]
    /\ rpc = [id \in Ids |-> "idle"]
    /\ buffer = [id \in Ids |-> <<>>]
    /\ batch_buffer = [id \in Ids |-> <<>>]
    /\ title_sequence = [id \in Ids |-> FALSE]
    /\ title_buffer = [id \in Ids |-> <<>>]
    /\ elapsed = [id \in Ids |-> 0]
    /\ wpc = [id \in Ids |-> "idle"]
    /\ crpc = [id \in Ids |-> "start"]
    /\ crres = [id \in Ids |-> "none"]
    /\ cpc = [c \in Callers |-> "idle"]
    /\ cop = [c \in Callers |-> "none"]
    /\ carg = [c \in Callers |-> Unknown]
    /\ cres = [c \in Callers |-> "none"]
    /\ creg = [c \in Callers |-> FALSE]
    /\ cdet = [c \in Callers |-> FALSE]
    /\ ncalls = 0
    /\ InitIo
    /\ size = [id \in Ids |-> <<>>]
    /\ mpc = [id \in Ids |-> "idle"]

\* create_pty is called with a command and without a metrics interval.
Init ==
    /\ InitSession
    /\ metrics_interval_ms = "None"
    /\ InitCommandGiven

Next ==
    \/ \E id \in Ids :
        \/ Create(id)
        \/ Reader(id)
        \/ Tick(id)
        \/ Watcher(id)
        \/ \E tok \in CoreTokens : ChildWrite(id, tok, MaxWritesCore)
        \/ ChildExit(id)
    \/ \E c \in Callers :
        \/ Destroy(c)
        \/ IsAlive(c)

Spec == Init /\ [][Next]_vars

\* ---------------------------------------------------------------- CmdSpec

\* A created session under write_pty, resize_pty and destroy_pty commands,
\* with the exit watcher that removes it when the child exits. The reader
\* thread stays in its read: it takes no part in the store, the writer or
\* the PTY's size.
NextCmd ==
    \/ \E id \in Ids :
        \/ Watcher(id)
        \/ ChildExit(id)
    \/ \E c \in Callers :
        \/ Write(c)
        \/ Resize(c)
        \/ Destroy(c)

CmdSpec == InitPump /\ [][NextCmd]_vars

\* -------------------------------------------------------------- StartSpec

\* The reader thread of a child that writes nothing: it blocks in its first
\* read until the end of the stream.
ReaderAtEnd(id) ==
    \/ ReaderEnd(id)
    \/ ReaderFlush(id)
    \/ ReaderLoad(id)
    \/ ReaderCas(id)
    \/ ReaderSend(id)

\* create_pty is called with a command, with or without a metrics interval.
InitStart ==
    /\ InitSession
    /\ metrics_interval_ms \in {"None", "Some"}
    /\ InitCommandGiven

\* create_pty with its failures, and the threads it starts for a child that
\* writes nothing, under destroy_pty commands.
NextStart ==
    \/ \E id \in Ids :
        \/ Create(id)
        \/ ReaderAtEnd(id)
        \/ Watcher(id)
        \/ Metrics(id)
        \/ ChildExit(id)
    \/ \E c \in Callers : Destroy(c)

StartSpec == InitStart /\ [][NextStart]_vars

\* ---------------------------------------------------------------- EndSpec

\* The reader thread, the exit watcher and the child of a running session.
NextEnd ==
    \E id \in Ids :
        \/ Reader(id)
        \/ Tick(id)
        \/ \E tok \in CoreTokens : ChildWrite(id, tok, MaxWrites)
        \/ ChildExit(id)
        \/ Watcher(id)

\* The reader is a thread of its own (core.rs:227): while it has a step to
\* take it is scheduled; send on the channel does not block, and the thread
\* takes no lock.
EndSpec ==
    /\ InitPump
    /\ [][NextEnd]_vars
    /\ \A id \in Ids : WF_vars(Reader(id))

\* ------------------------------------------------------------ DestroySpec

\* core.rs:591-595: child.wait() returns Ok(status), the child having exited.
DestroyWaitReturns(c) == DestroyWait(c) /\ child[carg[c]] = "exited"

\* The steps destroy_pty takes on its own once store::remove has given it
\* the instance: none of them waits for a lock or a thread; child.wait()
\* returns once the child has exited. That kill or wait fail is the
\* system's choice, and nothing makes it happen.
DestroyProgress(c) ==
    \/ DestroyFlag(c)
    \/ DestroyKill(c)
    \/ DestroyWaitReturns(c)
    \/ DestroyDrop(c)

\* The commands of CmdSpec, with a destroy_pty that is scheduled.
DestroySpec ==
    /\ InitPump
    /\ [][NextCmd]_vars
    /\ \A c \in Callers : WF_vars(DestroyProgress(c))

\* -------------------------------------------------------------- WatchSpec

\* The threads of EndSpec, the exit watcher scheduled as well: it is a
\* thread of its own (core.rs:431), and no other thread of this
\* specification takes the store's lock it waits for.
WatchSpec ==
    /\ InitPump
    /\ [][NextEnd]_vars
    /\ \A id \in Ids : WF_vars(Reader(id)) /\ WF_vars(Watcher(id))

\* -------------------------------------------------------------- TitleSpec

\* What the child writes in one piece: a whole title sequence, with a text
\* that is no valid UTF-8 or with a letter for text; an introducer; single
\* bytes.
TitleTokens ==
    {Intro \o <<BAD, BEL>>, Intro \o <<LETTER, BEL>>, Intro,
     <<BEL>>, <<BSL>>, <<LETTER>>, <<BAD>>}

\* The chunks made of at most n such pieces.
RECURSIVE Chunks(_)
Chunks(n) ==
    IF n = 0 THEN {}
    ELSE Chunks(n - 1) \cup TitleTokens
            \cup {c \o t : c \in Chunks(n - 1), t \in TitleTokens}

\* The first read of a reader whose buffer holds all the child has written
\* (buffer_size is 8192 unless given, core.rs:229) has just returned, with
\* one of chunks.
InitScan(chunks) ==
    /\ store = Ids
    /\ lock = "free"
    /\ exit_event_sent = [id \in Ids |-> FALSE]
    /\ child = [id \in Ids |-> "running"]
    /\ writer = [id \in Ids |-> "held"]
    /\ bytes_read = [id \in Ids |-> 0]
    /\ messages_sent = [id \in Ids |-> 0]
    /\ events = [id \in Ids |-> <<>>]
    /\ kills = [id \in Ids |-> 0]
    /\ waits = [id \in Ids |-> 0]
    /\ removals = [id \in Ids |-> <<>>]
    /\ pending = [id \in Ids |-> <<>>]
    /\ buffer \in [Ids -> chunks]
    /\ raw = buffer
    /\ wrote = [id \in Ids |-> 1]
    /\ rpc = [id \in Ids |-> "bell"]
    /\ batch_buffer = [id \in Ids |-> <<>>]
    /\ title_sequence = [id \in Ids |-> FALSE]
    /\ title_buffer = [id \in Ids |-> <<>>]
    /\ elapsed \in [Ids -> 0..BatchTimeout]
    /\ wpc = [id \in Ids |-> "sleep"]
    /\ crpc = [id \in Ids |-> "done"]
    /\ crres = [id \in Ids |-> "Ok"]
    /\ cpc = [c \in Callers |-> "idle"]
    /\ cop = [c \in Callers |-> "none"]
    /\ carg = [c \in Callers |-> Unknown]
    /\ cres = [c \in Callers |-> "none"]
    /\ creg = [c \in Callers |-> FALSE]
    /\ cdet = [c \in Callers |-> FALSE]
    /\ ncalls = 0
    /\ InitIo
    /\ size = [id \in Ids |-> OpenSize]
    /\ mpc = [id \in Ids |-> "idle"]
    /\ metrics_interval_ms = "None"
    /\ InitCommandGiven

InitTitle == InitScan(Chunks(MaxTokens))

\* The reader handles the chunk and waits in its next read.
NextTitle ==
    \E id \in Ids :
        \/ ReaderBell(id)
        \/ ReaderTitle(id)
        \/ ReaderBatch(id)
        \/ ReaderOut(id)
        \/ Tick(id)

TitleSpec == InitTitle /\ [][NextTitle]_vars

\* -------------------------------------------------------------- ShellSpec

\* create_pty is called on any platform, with or without a command, in any
\* environment.
InitShell ==
    /\ InitSession
    /\ metrics_interval_ms = "None"
    /\ platform \in Platforms
    /\ command \in {<<>>, <<"echo">>}
    /\ shell_env \in ShellEnvs
    /\ found \in SUBSET Candidates
    /\ resolved = <<>>
    /\ InitAux

NextShell == ResolveCommand

ShellSpec == InitShell /\ [][NextShell]_vars

\* =================================================================== claims

IsExit(e) == e.type = "Exit"
IsOutput(e) == e.type = "Output"
IsTitle(e) == e.type = "Title"
IsBell(e) == e.type = "Bell"

\* Number of Exit events delivered to the session's sink.
ExitCount(id) ==
    Cardinality({i \in 1..Len(events[id]) : IsExit(events[id][i])})

\* The payloads of the Output events of evs, concatenated in emission order.
RECURSIVE OutputBytes(_)
OutputBytes(evs) ==
    IF evs = <<>> THEN <<>>
    ELSE IF IsOutput(Head(evs)) THEN Head(evs).data \o OutputBytes(Tail(evs))
    ELSE OutputBytes(Tail(evs))

\* The texts of the Title events of evs, in emission order.
RECURSIVE TitleTexts(_)
TitleTexts(evs) ==
    IF evs = <<>> THEN <<>>
    ELSE IF IsTitle(Head(evs)) THEN <<Head(evs).data>> \o TitleTexts(Tail(evs))
    ELSE TitleTexts(Tail(evs))

IsPrefix(a, b) == Len(a) <= Len(b) /\ SubSeq(b, 1, Len(a)) = a

\* a occurs in b as a run of consecutive bytes.
Occurs(a, b) ==
    \E k \in 0..(Len(b) - Len(a)) : SubSeq(b, k + 1, k + Len(a)) = a

\* The stream scanned in one piece: what is left of it with the title escape
\* spans removed, and the titles it holds.
Whole(stream) == process_for_title(stream, <<>>, FALSE, <<>>)

\* The reader has left its read loop.
ReaderEnded(id) == rpc[id] \in {"load", "cas", "send", "done"}

\* No frontend task is inside a command.
NoCallRunning == \A c \in Callers : cpc[c] \in {"idle", "ret"}

\* ---- C1: at most one Exit event is ever delivered to a session's sink,
\* whatever the interleaving of the reader thread, the exit watcher,
\* destroy_pty and is_pty_alive.
C1_AtMostOneExit == \A id \in Ids : ExitCount(id) <= 1

\* The reader and the watcher have both run to their end, a destroy_pty on
\* the session has returned, and one Exit event was delivered.
C1_Witness ==
    \E id \in Ids :
        /\ ExitCount(id) = 1
        /\ rpc[id] = "done"
        /\ wpc[id] = "done"
        /\ \E c \in Callers :
            cop[c] = "destroy" /\ carg[c] = id /\ cpc[c] = "ret"

\* ---- C2: every session create_pty returned delivers exactly one Exit
\* event, never zero: once the reader thread and the exit watcher have ended
\* and no command is running, the sink has received one Exit event.
C2_ExactlyOneExit ==
    \A id \in Ids :
        (/\ crres[id] = "Ok"
         /\ rpc[id] = "done"
         /\ wpc[id] = "done"
         /\ NoCallRunning) => ExitCount(id) = 1

\* ---- C3: no Output event is delivered after the session's Exit event.
C3_NoOutputAfterExit ==
    \A id \in Ids :
        \A i, j \in 1..Len(events[id]) :
            (i < j /\ IsExit(events[id][i])) => ~IsOutput(events[id][j])

\* ---- C4: the payloads of the Output events, concatenated in emission
\* order, are a prefix of the bytes read with the title escape spans removed,
\* and are all of them once the reader has left its loop.
C4_OutputIsFilteredStream ==
    \A id \in Ids :
        /\ IsPrefix(OutputBytes(events[id]), Whole(raw[id]).batch)
        /\ ReaderEnded(id) =>
               OutputBytes(events[id]) = Whole(raw[id]).batch

\* The destroy_pty calls on id have all returned.
DestroysOver(id) ==
    \A c \in Callers :
        (cop[c] = "destroy" /\ carg[c] = id) => cpc[c] = "ret"

\* ---- C5 as stated: when a destroy_pty invoked on a registered id has
\* returned, and so has every other destroy_pty on that id, one party has
\* detached the session and has performed kill and wait on the child, whether
\* the other party was a second destroy_pty or the watcher's removal.
C5_DetacherKills ==
    \A c \in Callers :
        (/\ cop[c] = "destroy"
         /\ creg[c]
         /\ cpc[c] = "ret"
         /\ DestroysOver(carg[c])) =>
            /\ Len(removals[carg[c]]) = 1
            /\ kills[carg[c]] = 1
            /\ waits[carg[c]] = 1
            /\ cres[c] = "Ok"

\* ---- C5: of two destroy_pty calls on the same registered id (or a destroy
\* and the watcher's removal) exactly one detaches the session: store::remove
\* gives Some once per session; kill and wait are made by a destroy_pty that
\* detached, once each, and by nobody when the watcher detached; a
\* destroy_pty that found the id absent did nothing; every destroy_pty that
\* returned returned Ok.
C5_OneDetach ==
    /\ \A id \in Ids :
        /\ Len(removals[id]) <= 1
        /\ kills[id] <= Len(removals[id])
        /\ waits[id] <= kills[id]
    /\ \A c \in Callers :
        cop[c] = "destroy" =>
            /\ (creg[c] /\ cpc[c] # "d_remove") =>
                   Len(removals[carg[c]]) = 1
            /\ cpc[c] = "ret" => cres[c] = "Ok"
            /\ cdet[c] => carg[c] \in Ids /\ carg[c] \notin store
            /\ (cdet[c] /\ cpc[c] = "ret") =>
                   kills[carg[c]] = 1 /\ waits[carg[c]] = 1
    /\ \A c1, c2 \in Callers :
        (/\ c1 # c2
         /\ cop[c1] = "destroy" /\ cop[c2] = "destroy"
         /\ carg[c1] = carg[c2]) => ~(cdet[c1] /\ cdet[c2])
    /\ \A id \in Ids :
        removals[id] = <<"exit_watcher">> => kills[id] = 0 /\ waits[id] = 0

\* Two destroy_pty calls were invoked on the same id while it was registered;
\* one has detached the session, killed and reaped the child and returned Ok,
\* the other has found the id absent and returned Ok.
C5_Witness ==
    \E c1, c2 \in Callers :
        /\ c1 # c2
        /\ cop[c1] = "destroy" /\ cop[c2] = "destroy"
        /\ carg[c1] \in Ids /\ carg[c2] = carg[c1]
        /\ creg[c1] /\ creg[c2]
        /\ cdet[c1] /\ cpc[c1] = "ret" /\ cres[c1] = "Ok"
        /\ kills[carg[c1]] = 1 /\ waits[carg[c1]] = 1
        /\ ~cdet[c2] /\ cpc[c2] = "ret" /\ cres[c2] = "Ok"

\* ---- C6: destroy_pty on an id that is not registered returns Ok at once
\* and changes nothing: not the store, no session's exit flag, child, writer
\* or metrics, and it emits no event.
C6_DestroyUnknownNoEffect ==
    [][\A c \in Callers :
          /\ (cpc[c] # "d_remove" /\ cpc'[c] = "d_remove") =>
                UNCHANGED <<storeVars, instVars, events, ptyVars,
                            readerVars, wpc, createVars, sideVars>>
          /\ (/\ cpc[c] = "d_remove"
              /\ cpc'[c] # "d_remove"
              /\ carg[c] \notin store) =>
                /\ cpc'[c] = "ret"
                /\ cres'[c] = "Ok"
                /\ ~cdet'[c]
                /\ UNCHANGED <<storeVars, instVars, events, ptyVars,
                               readerVars, wpc, createVars, sideVars>>]_vars

\* A destroy_pty on the id that was never registered has returned Ok while a
\* session is registered and alive.
C6_Witness ==
    \E c \in Callers :
        /\ cop[c] = "destroy" /\ carg[c] = Unknown
        /\ cpc[c] = "ret" /\ cres[c] = "Ok"
        /\ \E id \in Ids :
            id \in store /\ child[id] = "running" /\ ~exit_event_sent[id]

\* ---- C7: is_pty_alive answers false for an id that is not registered, and
\* for an id whose Exit event has been delivered, registered or not.
C7_NotAliveAfterExit ==
    [][\A c \in Callers :
          (/\ cpc[c] = "a_lookup"
           /\ cpc'[c] # "a_lookup"
           /\ \/ carg[c] \notin store
              \/ carg[c] \in Ids /\ ExitCount(carg[c]) >= 1) =>
              cpc'[c] = "ret" /\ cres'[c] = "false"]_vars

\* is_pty_alive has answered false for a session that is still registered
\* and whose Exit event has been delivered.
C7_Witness ==
    \E c \in Callers :
        /\ cop[c] = "is_alive" /\ cpc[c] = "ret" /\ cres[c] = "false"
        /\ carg[c] \in store
        /\ ExitCount(carg[c]) = 1

\* ---- C8: every complete title sequence in the bytes read, however the
\* reads cut it, yields exactly one Title event with the text between the
\* introducer and the terminator: once a chunk has been scanned, the Title
\* events are the titles of the stream read so far.
C8_OneTitlePerSequence ==
    \A id \in Ids :
        rpc[id] \notin {"bell", "title"} =>
            TitleTexts(events[id]) = Whole(raw[id]).titles

\* ---- C9: no byte of a title escape sequence is forwarded as Output: the
\* introducer ESC ] 0 ; never shows up in the Output bytes, and no more bytes
\* are forwarded than the stream holds outside its title sequences.
C9_NoEscapeByteForwarded ==
    \A id \in Ids :
        /\ ~Occurs(Intro, OutputBytes(events[id]))
        /\ Len(OutputBytes(events[id])) <= Len(Whole(raw[id]).batch)

\* ---- C10: a BEL byte in a chunk makes the reader emit a Bell event right
\* after the read: it is the reader's next step, it comes before the chunk
\* reaches the batch, and it does not depend on whether the batch is then
\* flushed.
C10_BellFirst ==
    [][\A id \in Ids :
          /\ Len(raw'[id]) > Len(raw[id]) =>
                /\ rpc'[id] = "bell"
                /\ buffer'[id] =
                       SubSeq(raw'[id], Len(raw[id]) + 1, Len(raw'[id]))
          /\ (/\ rpc[id] = "bell"
              /\ \E i \in 1..Len(buffer[id]) : buffer[id][i] = BEL
              /\ rpc'[id] # "bell") =>
                /\ events'[id] = Append(events[id], BellEv)
                /\ batch_buffer'[id] = batch_buffer[id]
                /\ buffer'[id] = buffer[id]]_vars

\* The Bell event of a chunk that holds a BEL after another byte has been
\* sent while the batch holds earlier bytes and the timeout has not elapsed,
\* so that this read flushes nothing.
C10_Witness ==
    \E id \in Ids :
        /\ rpc[id] = "title"
        /\ Len(buffer[id]) >= 2 /\ buffer[id][1] # BEL
        /\ \E i \in 1..Len(buffer[id]) : buffer[id][i] = BEL
        /\ events[id] # <<>> /\ IsBell(events[id][Len(events[id])])
        /\ batch_buffer[id] # <<>>
        /\ elapsed[id] < BatchTimeout

\* What a command leaves alone when it does nothing to any session: the
\* store, every session's flag, child, writer and metrics, the events, the
\* PTY and its size, and the threads.
SessionState ==
    <<storeVars, instVars, events, ptyVars, readerVars, wpc, createVars,
      bytes_written, written, size, mpc>>

\* ---- C11: write_pty and resize_pty on an id that is not in the store when
\* the call looks it up (never registered, or removed by the exit watcher or
\* by destroy_pty after the call was invoked) return the not-found error and
\* change no session or store state; and no call panics.
C11_NotFound ==
    [][\A c \in Callers :
          /\ cres'[c] # "panic"
          /\ (/\ cpc[c] \in {"w_lookup", "r_lookup"}
              /\ cpc'[c] # cpc[c]
              /\ carg[c] \notin store) =>
                /\ cpc'[c] = "ret"
                /\ cres'[c] = "NotFound"
                /\ UNCHANGED SessionState]_vars

\* A write_pty and a resize_pty were both invoked on the id while it was
\* registered, the session was removed before they looked it up, and both
\* have returned the not-found error.
C11_Witness ==
    \E c1, c2 \in Callers :
        /\ cop[c1] = "write" /\ cop[c2] = "resize"
        /\ creg[c1] /\ creg[c2]
        /\ cpc[c1] = "ret" /\ cres[c1] = "NotFound"
        /\ cpc[c2] = "ret" /\ cres[c2] = "NotFound"

\* ---- C12: a create_pty that has failed (at openpty, spawn_command,
\* try_clone_reader or take_writer) has returned an error with no id
\* registered, no reader, exit watcher or metrics thread started and no event
\* delivered.
C12_FailedCreateLeavesNothing ==
    \A id \in Ids :
        crres[id] = "Err" =>
            /\ crpc[id] = "done"
            /\ id \notin store
            /\ removals[id] = <<>>
            /\ writer[id] = "none"
            /\ rpc[id] = "idle"
            /\ wpc[id] = "idle"
            /\ mpc[id] = "idle"
            /\ events[id] = <<>>

\* create_pty, called with a metrics interval, has failed after the child
\* was spawned, that is at try_clone_reader or take_writer.
C12_Witness ==
    \E id \in Ids :
        /\ crres[id] = "Err"
        /\ child[id] # "none"
        /\ metrics_interval_ms = "Some"

\* ---- C13: a destroy_pty that detached a registered session has, when it
\* returns, returned Ok and left the id unregistered, the exit flag set and
\* the writer released, whether kill and wait succeeded or failed.
C13_DestroySwallowsFailures ==
    \A c \in Callers :
        (cop[c] = "destroy" /\ cdet[c] /\ cpc[c] = "ret") =>
            /\ cres[c] = "Ok"
            /\ carg[c] \notin store
            /\ exit_event_sent[carg[c]]
            /\ writer[carg[c]] = "dropped"

\* destroy_pty has returned Ok on a session whose child is still running:
\* its kill has failed, and so has its wait.
C13_Witness ==
    \E c \in Callers :
        /\ cop[c] = "destroy" /\ cdet[c] /\ cpc[c] = "ret"
        /\ cres[c] = "Ok"
        /\ kills[carg[c]] = 1 /\ waits[carg[c]] = 1
        /\ child[carg[c]] = "running"

\* ---- C14: no thread holds the store's lock while it is inside a blocking
\* call: a command inside write_all or flush on the PTY or inside child.wait,
\* the exit watcher or the metrics thread in its sleep.
C14_NoBlockingUnderLock ==
    /\ \A c \in Callers :
        cpc[c] \in {"w_write", "w_flush", "d_wait"} => lock # c
    /\ \A id \in Ids :
        /\ wpc[id] = "sleep" => lock # WatcherName(id)
        /\ mpc[id] = "sleep" => lock # MetricsName(id)

\* ---- C15: at most one write to a session's writer is in progress at any
\* time, and the writes of two write_pty calls are not interleaved: the bytes
\* of one call are next to each other on the PTY, and the data of a call that
\* returned Ok is there in one piece.
C15_WritesSerialized ==
    /\ \A c1, c2 \in Callers :
        (/\ cpc[c1] \in {"w_write", "w_flush"}
         /\ cpc[c2] \in {"w_write", "w_flush"}) => c1 = c2
    /\ \A id \in Ids :
        \A i, j, k \in 1..Len(written[id]) :
            (i < j /\ j < k /\ written[id][i] = written[id][k]) =>
                written[id][j] = written[id][i]
    /\ \A c \in Callers :
        (cop[c] = "write" /\ cpc[c] = "ret" /\ cres[c] = "Ok") =>
            Occurs(cdata[c], written[carg[c]])

\* One write_pty has written the first byte of its data and is still inside
\* write_all while another write_pty on the same id, invoked meanwhile, waits
\* for the store.
C15_Witness ==
    \E c1, c2 \in Callers :
        /\ c1 # c2
        /\ cop[c1] = "write" /\ cop[c2] = "write"
        /\ carg[c1] \in Ids /\ carg[c2] = carg[c1]
        /\ cpc[c1] = "w_write" /\ csent[c1] >= 1
        /\ cpc[c2] = "w_lookup"

\* ---- C16: the exit flag is false until the reader thread exists, is never
\* reset once true, and an Exit event is emitted only by the reader thread
\* or the exit watcher right after its own compare_exchange took the flag
\* from false to true; a thread that finds the flag true, at its load or at
\* its compare_exchange, goes on without emitting anything.
C16_FlagMonotone ==
    [][\A id \in Ids :
          /\ crpc[id] \in {"start", "spawn", "clone", "take", "reader"} =>
                ~exit_event_sent[id]
          /\ exit_event_sent[id] => exit_event_sent'[id]
          /\ ExitCount(id)' > ExitCount(id) =>
                \/ rpc[id] = "send" /\ rpc'[id] = "done"
                \/ wpc[id] = "send" /\ wpc'[id] = "remove"
          /\ (rpc[id] # "send" /\ rpc'[id] = "send") =>
                /\ rpc[id] = "cas"
                /\ ~exit_event_sent[id] /\ exit_event_sent'[id]
          /\ (wpc[id] # "send" /\ wpc'[id] = "send") =>
                /\ wpc[id] = "cas"
                /\ ~exit_event_sent[id] /\ exit_event_sent'[id]
          /\ (/\ rpc[id] \in {"load", "cas"}
              /\ exit_event_sent[id]
              /\ rpc'[id] # rpc[id]) =>
                rpc'[id] = "done" /\ events'[id] = events[id]
          /\ (/\ wpc[id] \in {"load", "cas"}
              /\ exit_event_sent[id]
              /\ wpc'[id] # wpc[id]) =>
                wpc'[id] = "remove" /\ events'[id] = events[id]]_vars

\* is_pty_alive has set the flag of an exited child; the reader thread and
\* the exit watcher have both found it set and ended, and no Exit event was
\* emitted.
C16_Witness ==
    \E id \in Ids :
        /\ exit_event_sent[id]
        /\ rpc[id] = "done" /\ wpc[id] = "done"
        /\ ExitCount(id) = 0
        /\ \E c \in Callers :
            /\ cop[c] = "is_alive" /\ carg[c] = id
            /\ cpc[c] = "ret" /\ cres[c] = "false"
        /\ \A c \in Callers : cop[c] # "destroy"

\* The first install path that exists, as <<path>>, or <<>>.
FirstInstalled ==
    IF \E i \in 1..Len(InstallPaths) : InstallPaths[i] \in found
    THEN <<InstallPaths[CHOOSE i \in 1..Len(InstallPaths) :
               /\ InstallPaths[i] \in found
               /\ \A j \in 1..(i - 1) : InstallPaths[j] \notin found]>>
    ELSE <<>>

\* The per-OS fallback of the claim: bash on Linux, zsh on macOS; on Windows
\* the first PowerShell of the ordered search, else cmd.exe.
Fallback ==
    IF platform = "linux" THEN "bash"
    ELSE IF platform = "macos" THEN "zsh"
    ELSE IF WhichPwsh \in found THEN WhichPwsh
    ELSE IF WhichPowershell \in found THEN WhichPowershell
    ELSE IF FirstInstalled # <<>> THEN FirstInstalled[1]
    ELSE "cmd.exe"

\* ---- C17 as stated: the command is the explicit one when given; otherwise
\* the value of SHELL when it is set, on every platform, and the per-OS
\* fallback when it is not set.
C17_ShellEnvFirst ==
    resolved # <<>> =>
        resolved[1] =
            IF command # <<>> THEN command[1]
            ELSE IF shell_env[1] # "NotPresent" THEN shell_env[2]
            ELSE Fallback

\* ---- C17: the command is the explicit one when given; otherwise, on Linux
\* and macOS, the value of SHELL when env::var can read it (set, and valid
\* Unicode) and bash / zsh when it cannot; on Windows, whatever SHELL holds,
\* the first PowerShell of the ordered search, else cmd.exe.
C17_ShellResolution ==
    resolved # <<>> =>
        resolved[1] =
            IF command # <<>> THEN command[1]
            ELSE IF platform # "windows" /\ shell_env[1] = "Ok"
            THEN shell_env[2]
            ELSE Fallback

\* On Windows, with no command given and SHELL set, the command resolved is
\* the PowerShell found at an install path, no PowerShell being on the PATH.
C17_Witness ==
    /\ platform = "windows"
    /\ command = <<>>
    /\ shell_env[1] = "Ok"
    /\ WhichPwsh \notin found /\ WhichPowershell \notin found
    /\ FirstInstalled # <<>>
    /\ resolved = FirstInstalled

\* ---- C18: bytes in the batch are delivered once the batch timeout has
\* elapsed since the last flush, also when the child produces nothing more:
\* whenever the batch holds bytes and the timeout has elapsed, the reader
\* thread has a step to take without waiting for the child.
C18_TimeoutFlushes ==
    \A id \in Ids :
        (batch_buffer[id] # <<>> /\ elapsed[id] >= BatchTimeout)
            => ENABLED Reader(id)

\* A destroy_pty that took the session id out of the store has returned.
DestroyReturned(id) ==
    \E c \in Callers :
        /\ cop[c] = "destroy" /\ carg[c] = id
        /\ cdet[c] /\ cpc[c] = "ret"

\* ---- C19: no Exit event for a session is emitted after destroy(id) on that
\* session has returned: no step adds an Exit event to the events of a
\* session whose destroy_pty has returned.
C19_NoExitAfterDestroy ==
    [][\A id \in Ids :
          DestroyReturned(id) => ExitCount(id)' = ExitCount(id)]_vars

\* The reader thread of id takes the step.
ReaderSteps(id) == rpc'[id] # rpc[id]

\* The events of id are as they were, with evs added at the end.
Emits(id, evs) == events'[id] = events[id] \o evs

\* ---- C20: on EOF or an I/O error the reader force-flushes the batch (one
\* Output event with the batch if it is non-empty), then attempts the claim
\* of the exit flag, then emits one Exit event if and only if it won the
\* claim; after losing the claim it emits nothing, and in both cases the
\* thread terminates.
C20_EndOfStream ==
    /\ [](\A id \in Ids :
            /\ ReaderEnded(id) => batch_buffer[id] = <<>>
            /\ rpc[id] = "done" => ~ENABLED Reader(id))
    /\ [][\A id \in Ids : ReaderSteps(id) =>
            /\ rpc[id] = "read" /\ rpc'[id] # "bell" =>
                  rpc'[id] = "flush" /\ Emits(id, <<>>)
            /\ rpc[id] = "flush" =>
                  /\ Emits(id, <<>>)
                  /\ rpc'[id] = IF batch_buffer[id] # <<>>
                                THEN "lastout" ELSE "load"
            /\ rpc[id] = "lastout" =>
                  /\ Emits(id, <<OutputEv(batch_buffer[id])>>)
                  /\ rpc'[id] = "load"
            /\ exit_event_sent'[id] # exit_event_sent[id] =>
                  rpc[id] = "cas"
            /\ rpc[id] \in {"load", "cas"} =>
                  /\ Emits(id, <<>>)
                  /\ rpc'[id] = "send" <=>
                        /\ rpc[id] = "cas"
                        /\ ~exit_event_sent[id] /\ exit_event_sent'[id]
                  /\ rpc'[id] # "send" => rpc'[id] \in {"cas", "done"}
                  /\ rpc'[id] = "cas" => rpc[id] = "load"
            /\ rpc[id] = "send" =>
                  /\ Emits(id, <<ExitEv("Reader thread ended")>>)
                  /\ rpc'[id] = "done"
            /\ ExitCount(id)' # ExitCount(id) => rpc[id] = "send"]_vars
    /\ \A id \in Ids : (rpc[id] = "flush") ~> (rpc[id] = "done")

\* The reader has flushed a batch at the end of the stream, lost the claim
\* to the exit watcher and ended without an Exit event of its own.
C20_Witness ==
    \E id \in Ids :
        /\ rpc[id] = "done"
        /\ exit_event_sent[id]
        /\ \E i \in 1..Len(events[id]) : IsOutput(events[id][i])
        /\ \E i \in 1..Len(events[id]) :
              events[id][i] = ExitEv("ExitStatus")
        /\ \A i \in 1..Len(events[id]) :
              events[id][i] # ExitEv("Reader thread ended")

\* The exit watcher thread of id takes the step.
WatcherSteps(id) == wpc'[id] # wpc[id]

\* ---- C21: when the watcher's probe reports the exit and the watcher wins
\* the claim, it emits exactly one Exit event carrying the exit status text,
\* then removes the session from the store (the emission comes before the
\* removal), and the watcher thread then terminates.
C21_WatcherExitThenRemove ==
    /\ [](\A id \in Ids : wpc[id] = "done" => ~ENABLED Watcher(id))
    /\ [][\A id \in Ids : WatcherSteps(id) =>
            /\ wpc[id] = "cas" /\ ~exit_event_sent[id] =>
                  /\ wpc'[id] = "send" /\ exit_event_sent'[id]
                  /\ Emits(id, <<>>) /\ store' = store
            /\ wpc'[id] = "send" =>
                  wpc[id] = "cas" /\ ~exit_event_sent[id]
            /\ wpc[id] = "send" =>
                  /\ Emits(id, <<ExitEv("ExitStatus")>>)
                  /\ store' = store /\ id \in store
                  /\ wpc'[id] = "remove"
            /\ wpc[id] = "remove" =>
                  /\ Emits(id, <<>>)
                  /\ id \notin store'
                  /\ wpc'[id] = "done"
            /\ wpc[id] # "send" => Emits(id, <<>>)]_vars
    /\ \A id \in Ids :
          (wpc[id] = "send") ~> (wpc[id] = "done" /\ id \notin store)

\* The watcher has won the claim, sent its Exit event, removed the session
\* and ended.
C21_Witness ==
    \E id \in Ids :
        /\ wpc[id] = "done"
        /\ removals[id] = <<"exit_watcher">>
        /\ id \notin store
        /\ Cardinality({i \in 1..Len(events[id]) :
                           events[id][i] = ExitEv("ExitStatus")}) = 1

\* ---- C22: if destroy removed the session before a poll of the exit
\* watcher, the watcher emits no event, changes no state and terminates at
\* that poll; it never acts on a session it cannot find in the store.
C22_WatcherSilentWhenRemoved ==
    /\ [](\A id \in Ids :
            /\ wpc[id] \in {"load", "cas", "send"} => id \in store
            /\ wpc[id] = "done" => ~ENABLED Watcher(id))
    /\ [][\A id \in Ids : WatcherSteps(id) /\ id \notin store =>
            /\ wpc'[id] = "done"
            /\ UNCHANGED <<storeVars, instVars, events, ptyVars, readerVars,
                           createVars, callVars, sideVars>>]_vars

\* destroy_pty has removed the session, and the watcher has ended at a poll
\* that did not find it, without an event.
C22_Witness ==
    \E id \in Ids :
        /\ wpc[id] = "done"
        /\ removals[id] = <<"destroy_pty">>
        /\ events[id] = <<>>

\* The id is or has been in the store.
Registered(id) == id \in store \/ removals[id] # <<>>

\* ---- C23: create registers the session in the store before it starts
\* either of the session's threads: at no time does a reader thread or an
\* exit watcher run for an id that has never been registered.
C23_RegisteredBeforeThreads ==
    \A id \in Ids :
        (rpc[id] # "idle" \/ wpc[id] # "idle") => Registered(id)

\* ---- C24: destroy(id) always terminates: it never waits for the reader or
\* the exit watcher, and it returns even when kill() fails and the child
\* keeps running: a destroy_pty that has taken the instance out of the store
\* gets to its return.
C24_DestroyTerminates ==
    \A c \in Callers :
        (cop[c] = "destroy" /\ cpc[c] = "d_flag") ~> (cpc[c] = "ret")

\* ---- C25: the reader thread leaves the session store unchanged in every
\* step, also when it wins the exit claim and emits the Exit event; a
\* session is removed only by the exit watcher or by destroy.
C25_ReaderKeepsStore ==
    [][\A id \in Ids :
          /\ ReaderSteps(id) => UNCHANGED storeVars
          /\ (id \in store /\ id \notin store') =>
                \/ wpc[id] = "remove" /\ wpc'[id] = "done"
                \/ \E c \in Callers :
                      /\ cop[c] = "destroy" /\ carg[c] = id
                      /\ cpc[c] = "d_remove" /\ cpc'[c] = "d_flag"]_vars

\* The reader has won the claim, sent its Exit event and ended, and the
\* session is still in the store.
C25_Witness ==
    \E id \in Ids :
        /\ rpc[id] = "done"
        /\ \E i \in 1..Len(events[id]) :
              events[id][i] = ExitEv("Reader thread ended")
        /\ id \in store

\* ---- C26: isAlive(id) on a registered session returns false when the exit
\* flag is set; otherwise it probes the child, returns true if the child is
\* still running, and sets the exit flag and returns false if the child has
\* exited; it always yields a boolean, emits no event and does not remove
\* the session.
C26_IsAliveBoolean ==
    [][\A c \in Callers :
          (cop[c] = "is_alive" /\ carg[c] \in store /\ cpc'[c] # cpc[c]) =>
              /\ events' = events /\ store' = store
              /\ cpc[c] = "a_lookup" =>
                    IF exit_event_sent[carg[c]]
                    THEN cpc'[c] = "ret" /\ cres'[c] = "false"
                    ELSE cpc'[c] = "a_probe"
              /\ cpc[c] = "a_probe" =>
                    /\ cpc'[c] = "ret"
                    /\ IF child[carg[c]] = "exited"
                       THEN cres'[c] = "false" /\ exit_event_sent'[carg[c]]
                       ELSE /\ cres'[c] = "true"
                            /\ exit_event_sent' = exit_event_sent]_vars

\* ---- C27: Metrics events for a session are emitted only while its exit
\* flag is unset: no Metrics event is delivered after the flag is set, in
\* particular none after the session's Exit event.
C27_NoMetricsAfterFlag ==
    [][\A id \in Ids :
          MetricsCount(id)' # MetricsCount(id) =>
              ~exit_event_sent[id] /\ ExitCount(id) = 0]_vars

\* The write_pty of c on id returns Ok in this step.
WriteAcked(c, id) ==
    /\ cop[c] = "write" /\ carg[c] = id
    /\ cpc[c] # "ret" /\ cpc'[c] = "ret" /\ cres'[c] = "Ok"

\* ---- C28: bytes_written of a session is the sum of the byte lengths of the
\* payloads of the write calls that returned Ok: it starts at 0, a step in
\* which a write returns Ok adds the length of that call's data, and every
\* other step, a write failing in write_all or in flush included, leaves it
\* unchanged.
C28_BytesWrittenCountsAcked ==
    /\ \A id \in Ids : bytes_written[id] = 0
    /\ [][\A id \in Ids :
            IF \E c \in Callers : WriteAcked(c, id)
            THEN \E c \in Callers :
                    /\ WriteAcked(c, id)
                    /\ bytes_written'[id] =
                          bytes_written[id] + Len(cdata[c])
            ELSE bytes_written'[id] = bytes_written[id]]_vars

\* One write has returned Ok, another has put all its bytes on the PTY and
\* failed in flush; bytes_written is the length of the first one's data.
C28_Witness ==
    \E c1, c2 \in Callers : \E id \in Ids :
        /\ cop[c1] = "write" /\ carg[c1] = id
        /\ cpc[c1] = "ret" /\ cres[c1] = "Ok"
        /\ cop[c2] = "write" /\ carg[c2] = id
        /\ cpc[c2] = "ret" /\ cres[c2] = "Err"
        /\ csent[c2] = Len(cdata[c2])
        /\ Len(written[id]) = Len(cdata[c1]) + Len(cdata[c2])
        /\ bytes_written[id] = Len(cdata[c1])

\* The reader (the watcher) of id wins the claim of the exit flag in its next
\* step.
ReaderWins(id) == ReaderCas(id) /\ rpc'[id] = "send"

WatcherWins(id) == WatcherCas(id) /\ wpc'[id] = "send"

\* ---- C29: the Exit event's status text is the child's exit status exactly
\* when the exit watcher won the claim, and the fixed text "Reader thread
\* ended" exactly when the reader won it; for the same child behaviour both
\* outcomes are reachable: with both threads about to claim the unset flag,
\* either can win.
C29_PayloadFollowsWinner ==
    /\ [](\A id \in Ids :
            (rpc[id] = "cas" /\ wpc[id] = "cas" /\ ~exit_event_sent[id]) =>
                ENABLED ReaderWins(id) /\ ENABLED WatcherWins(id))
    /\ [][\A id \in Ids :
            /\ rpc'[id] = "send" /\ ReaderSteps(id) =>
                  rpc[id] = "cas" /\ ~exit_event_sent[id]
            /\ wpc'[id] = "send" /\ WatcherSteps(id) =>
                  wpc[id] = "cas" /\ ~exit_event_sent[id]
            /\ rpc[id] = "send" /\ ReaderSteps(id) =>
                  Emits(id, <<ExitEv("Reader thread ended")>>)
            /\ wpc[id] = "send" /\ WatcherSteps(id) =>
                  Emits(id, <<ExitEv("ExitStatus")>>)
            /\ ExitCount(id)' # ExitCount(id) =>
                  \/ rpc[id] = "send" /\ ReaderSteps(id)
                  \/ wpc[id] = "send" /\ WatcherSteps(id)]_vars

\* The child has exited; the reader and the exit watcher have both found
\* the flag unset and are about to claim it.
C29_Witness ==
    \E id \in Ids :
        /\ child[id] = "exited"
        /\ rpc[id] = "cas" /\ wpc[id] = "cas"
        /\ ~exit_event_sent[id]

\* The state of process_for_title's loop at its head: the index, the batch,
\* the two title variables and the titles sent so far.
LoopHead(i, batch, ts, tb, titles) ==
    [i |-> i, batch |-> batch, title_seq |-> ts, title_buf |-> tb,
     titles |-> titles]

\* One turn of the loop of core.rs:245-286 on data, from the head h.
Turn(data, h) ==
    IF h.title_seq
    THEN IF data[h.i] = BSL \/ data[h.i] = BEL
         THEN LoopHead(h.i + 1, h.batch, FALSE, <<>>,
                   IF ValidUtf8(h.title_buf)
                   THEN Append(h.titles, h.title_buf) ELSE h.titles)
         ELSE LoopHead(h.i + 1, h.batch, TRUE, Append(h.title_buf, data[h.i]),
                   h.titles)
    ELSE IF /\ h.i + 1 <= Len(data)
            /\ data[h.i] = ESC /\ data[h.i + 1] = RBR
            /\ IntroAt(data, h.i)
    THEN LoopHead(h.i + 4, h.batch, TRUE, h.title_buf, h.titles)
    ELSE LoopHead(h.i + 1, Append(h.batch, data[h.i]), h.title_seq,
              h.title_buf, h.titles)

\* The head the loop is at when its index first reaches stop or more.
RECURSIVE LoopUntil(_, _, _)
LoopUntil(data, stop, h) ==
    IF h.i >= stop \/ h.i > Len(data) THEN h
    ELSE LoopUntil(data, stop, Turn(data, h))

\* The loop on the chunk in the reader's buffer is at index k, inside a title
\* sequence, at a terminator, with captured bytes that are no valid UTF-8:
\* they hold the byte 255, which no UTF-8 text holds.
InvalidTitleAt(id, k) ==
    LET h == LoopUntil(buffer[id], k,
                       LoopHead(1, batch_buffer[id], title_sequence[id],
                            title_buffer[id], <<>>))
    IN /\ h.i = k
       /\ h.title_seq
       /\ buffer[id][k] = BSL \/ buffer[id][k] = BEL
       /\ \E j \in 1..Len(h.title_buf) : h.title_buf[j] = BAD

\* ---- C30: when the captured bytes of a title sequence are not valid UTF-8
\* at the terminator, the reader emits no Title event for it, discards the
\* captured bytes and returns to passthrough, so that the bytes after the
\* terminator are forwarded as Output and a later well-formed title sequence
\* still yields its Title event: the scan of the chunk ends as the scan of
\* the bytes after the terminator does when it starts in passthrough with an
\* empty title buffer, the batch and the titles being those before the
\* sequence's terminator.
C30_InvalidTitleDropped ==
    [][\A id \in Ids :
          (rpc[id] = "title" /\ rpc'[id] = "batch") =>
              \A k \in 1..Len(buffer[id]) :
                  InvalidTitleAt(id, k) =>
                      LET data == buffer[id]
                          h == LoopUntil(data, k,
                                   LoopHead(1, batch_buffer[id],
                                        title_sequence[id],
                                        title_buffer[id], <<>>))
                          a == Turn(data, h)
                          r == process_for_title(
                                   SubSeq(data, k + 1, Len(data)),
                                   h.batch, FALSE, <<>>)
                      IN /\ a.titles = h.titles /\ a.batch = h.batch
                         /\ ~a.title_seq /\ a.title_buf = <<>>
                         /\ batch_buffer'[id] = r.batch
                         /\ title_sequence'[id] = r.title_seq
                         /\ title_buffer'[id] = r.title_buf
                         /\ TitleTexts(events'[id]) =
                               TitleTexts(events[id]) \o h.titles
                                   \o r.titles]_vars

\* The reader has handled a chunk with a title sequence whose text is no
\* valid UTF-8, a letter, and a well-formed title sequence: one Title event
\* with the second title, and the letter forwarded as Output.
C30_Witness ==
    \E id \in Ids :
        /\ raw[id] = Intro \o <<BAD, BEL, LETTER>> \o Intro \o <<LETTER, BEL>>
        /\ TitleTexts(events[id]) = <<<<LETTER>>>>
        /\ OutputBytes(events[id]) = <<LETTER>>

\* ------------------------------------------------------------- ErrorSpec
\* The Err value of a failed create, in pty/core.rs and in pty.rs.

MaxFailures == 2

\* The four calls of create_pty that can fail, in the order they are made.
FailingCalls == <<"openpty", "spawn_command", "try_clone_reader",
                  "take_writer">>

\* The failure class of each call in the spec's taxonomy.
FailureClass(call) ==
    CASE call = "openpty" -> "ResourceAllocationFailure"
      [] call = "spawn_command" -> "SpawnFailure"
      [] OTHER -> "HandleUnavailable"

\* e.to_string() of the error the PTY library hands back: the text of the
\* operating system's error, whichever call met it.
LibraryErrors == {"Too many open files (os error 24)",
                  "Permission denied (os error 13)",
                  "No such file or directory (os error 2)"}

\* pty/core.rs: every failing call is mapped with |e| e.to_string().
create_pty_error(call, e) == e

\* pty.rs: every failing call formats its own text before the library's.
create_pty_with_command_error(call, e) ==
    CASE call = "openpty" -> "Failed to create PTY pair: " \o e
      [] call = "spawn_command" -> "Failed to spawn command: " \o e
      [] call = "try_clone_reader" -> "Failed to get PTY reader: " \o e
      [] OTHER -> "Failed to get PTY writer: " \o e

\* One create call fails in `call` with the library error e; the values the
\* two implementations return for it are recorded.
CreateFails(call, e) ==
    /\ Len(errs) < MaxFailures
    /\ errs' = Append(errs, [call |-> call,
                             core |-> create_pty_error(call, e),
                             manager |->
                                 create_pty_with_command_error(call, e)])
    /\ UNCHANGED <<storeVars, instVars, events, ptyVars, readerVars, wpc,
                   createVars, callVars, ioVars, mpc, metrics_interval_ms,
                   platform, command, shell_env, found, resolved,
                   managerVars, configVars>>

InitError ==
    /\ InitSession
    /\ metrics_interval_ms = "None"
    /\ InitCommandGiven

NextError ==
    \E i \in 1..Len(FailingCalls), e \in LibraryErrors :
        CreateFails(FailingCalls[i], e)

ErrorSpec == InitError /\ [][NextError]_vars

\* Two recorded failures of different classes.
OtherClass(i, j) ==
    FailureClass(errs[i].call) # FailureClass(errs[j].call)

\* The values PtyManager::create_pty_with_command returns do tell the
\* classes apart.
ManagerErrorsDistinct ==
    \A i, j \in 1..Len(errs) :
        OtherClass(i, j) => errs[i].manager # errs[j].manager

\* C31: the Err values create_pty returns for failures of two different
\* classes (PTY allocation, spawn, reader or writer acquisition) differ, so
\* that the value identifies the class of the failure.
C31_ErrorsIdentifyClass ==
    \A i, j \in 1..Len(errs) :
        OtherClass(i, j) => errs[i].core # errs[j].core

\* -------------------------------------------------------------- ReapSpec

\* The steps of is_pty_alive once it is invoked: the lookup waits for the
\* store's lock, and try_wait does not block (core.rs:626-647).
IsAliveProgress(c) == IsAliveLookup(c) \/ IsAliveProbe(c)

NextReap ==
    \/ \E id \in Ids :
        \/ ReaderAtEnd(id)
        \/ ChildExit(id)
        \/ Watcher(id)
    \/ \E c \in Callers : IsAlive(c)

\* A created session whose child writes nothing, with its reader thread,
\* its exit watcher and is_pty_alive commands, and no destroy_pty. The watcher is a thread of its
\* own (core.rs:431) that polls every 500 ms and gets the store's lock when
\* it is free; a running is_pty_alive gives the lock back. Nothing is
\* assumed of the reader thread.
ReapSpec ==
    /\ InitPump
    /\ [][NextReap]_vars
    /\ \A id \in Ids : WF_vars(Watcher(id))
    /\ \A c \in Callers : WF_vars(IsAliveProgress(c))

\* C32: once the child of a session has exited, and with destroy_pty never
\* called, the session is eventually removed from the store, and by the
\* exit watcher, also when the reader thread or is_pty_alive set the exit
\* flag before the watcher looked at it.
C32_WatcherReaps ==
    \A id \in Ids :
        (child[id] = "exited")
            ~> (id \notin store /\ removals[id] = <<"exit_watcher">>)

\* The watcher has removed a session whose flag is_pty_alive had set: no
\* Exit event was sent at all.
C32_Witness ==
    \E id \in Ids :
        /\ wpc[id] = "done"
        /\ removals[id] = <<"exit_watcher">>
        /\ exit_event_sent[id]
        /\ ExitCount(id) = 0
        /\ \E c \in Callers :
            cop[c] = "is_alive" /\ carg[c] = id /\ cres[c] = "false"

\* The watcher has removed a session whose Exit event the reader thread
\* sent.
C32_ReaderFirst ==
    \E id \in Ids :
        /\ wpc[id] = "done"
        /\ removals[id] = <<"exit_watcher">>
        /\ \E k \in 1..Len(events[id]) : events[id][k] = ExitEv(ReaderText)

\* The index of the first backslash or BEL of data, Len(data) + 1 if it has
\* none.
FirstTerminator(data) ==
    CHOOSE k \in 1..(Len(data) + 1) :
        /\ k <= Len(data) => (data[k] = BSL \/ data[k] = BEL)
        /\ \A j \in 1..(k - 1) : data[j] # BSL /\ data[j] # BEL

\* The reader's step is the scan of the chunk in its buffer.
ScanStep(id) == rpc[id] = "title" /\ rpc'[id] = "batch"

\* ---- C33: while the scanner is capturing a title, no byte read is put in
\* the batch, and so none is forwarded as Output, until a BEL or a backslash
\* is read; when the stream ends (end of file or I/O error) inside a title
\* sequence, the captured bytes are dropped: the reader sends no Title event
\* and its last Output event holds the batch only.
C33_CaptureForwardsNothing ==
    [][\A id \in Ids :
        /\ (ScanStep(id) /\ title_sequence[id]) =>
              LET k == FirstTerminator(buffer[id])
              IN IF k > Len(buffer[id])
                 THEN /\ batch_buffer'[id] = batch_buffer[id]
                      /\ title_buffer'[id] = title_buffer[id] \o buffer[id]
                      /\ title_sequence'[id]
                      /\ Emits(id, <<>>)
                 ELSE /\ batch_buffer'[id] =
                             ProcessFrom(buffer[id], k + 1, batch_buffer[id],
                                         FALSE, <<>>, <<>>).batch
                      /\ TitleTexts(events'[id]) # TitleTexts(events[id]) =>
                             TitleTexts(events'[id])
                                 [Len(TitleTexts(events[id])) + 1] =
                             title_buffer[id]
                                 \o SubSeq(buffer[id], 1, k - 1)
        /\ (rpc[id] \in {"flush", "lastout", "load", "cas", "send", "done"}
               /\ title_sequence[id]) =>
              /\ title_sequence'[id]
              /\ title_buffer'[id] = title_buffer[id]
              /\ TitleTexts(events'[id]) = TitleTexts(events[id])
              /\ \/ OutputBytes(events'[id]) = OutputBytes(events[id])
                 \/ /\ rpc[id] = "lastout"
                    /\ Emits(id, <<OutputEv(batch_buffer[id])>>)]_vars

\* The stream has ended inside a title sequence with captured bytes, after
\* a chunk read in capture mode; no Title event was sent.
C33_Witness ==
    \E id \in Ids :
        /\ rpc[id] = "done"
        /\ title_sequence[id]
        /\ title_buffer[id] # <<>>
        /\ Len(raw[id]) > Len(Intro) + Len(title_buffer[id])
        /\ TitleTexts(events[id]) = <<>>
        /\ OutputBytes(events[id]) # <<>>

\* A chunk without terminator is about to be scanned in capture mode.
C33_CaptureAcrossReads ==
    \E id \in Ids :
        /\ rpc[id] = "title"
        /\ title_sequence[id]
        /\ FirstTerminator(buffer[id]) > Len(buffer[id])

\* Number of Bell events among evs.
BellCount(evs) == Cardinality({i \in 1..Len(evs) : IsBell(evs[i])})

\* ---- C34: for every chunk it reads, the reader sends one Bell event if the
\* chunk holds at least one BEL byte, however many, and none if it holds
\* none, and no other step of the reader sends a Bell; the Bell of a chunk is
\* sent before the chunk is scanned, so that a BEL which ends a title
\* sequence gives a Bell event that comes before the Title event of that
\* sequence.
C34_OneBellPerChunk ==
    /\ [](\A id \in Ids :
            (rpc[id] = "title" /\ ContainsBell(buffer[id])) =>
                /\ events[id] # <<>>
                /\ events[id][Len(events[id])] = BellEv)
    /\ [][\A id \in Ids :
            /\ (rpc[id] = "bell" /\ ReaderSteps(id)) =>
                  /\ rpc'[id] = "title"
                  /\ buffer'[id] = buffer[id]
                  /\ Emits(id, IF ContainsBell(buffer[id])
                               THEN <<BellEv>> ELSE <<>>)
            /\ BellCount(events'[id]) # BellCount(events[id]) =>
                  rpc[id] = "bell"
            /\ ScanStep(id) =>
                  /\ IsPrefix(events[id], events'[id])
                  /\ \A k \in (Len(events[id]) + 1)..Len(events'[id]) :
                         IsTitle(events'[id][k])]_vars

\* A chunk with two BEL bytes, the first of which ends a title sequence,
\* has been scanned: one Bell event, and the Title event after it.
C34_Witness ==
    \E id \in Ids :
        /\ rpc[id] = "batch"
        /\ Cardinality({i \in 1..Len(raw[id]) : raw[id][i] = BEL}) = 2
        /\ Len(events[id]) = 2
        /\ events[id][1] = BellEv
        /\ IsTitle(events[id][2])

\* A chunk without BEL has been scanned and no Bell event was sent.
C34_NoBell ==
    \E id \in Ids :
        /\ rpc[id] = "batch"
        /\ raw[id] # <<>>
        /\ ~ContainsBell(raw[id])
        /\ BellCount(events[id]) = 0

\* The watcher of id is between its lookup and the end of its emission.
WatcherInside(id) == wpc[id] \in {"load", "cas", "send"}

\* ---- C35: the exit watcher holds the store's lock from its lookup through
\* its test of the flag, its claim and its emission, and the session stays
\* registered all that time: no destroy_pty removes the session or sets its
\* flag in between, and every Exit event of the watcher is sent for a session
\* that is in the store.
C35_WatcherExitWhileRegistered ==
    /\ [](\A id \in Ids :
            WatcherInside(id) =>
                /\ id \in store
                /\ lock = WatcherName(id)
                /\ \A c \in Callers :
                      (cop[c] = "destroy" /\ carg[c] = id) =>
                          cpc[c] \in {"d_remove", "ret"} /\ ~cdet[c])
    /\ [][\A id \in Ids :
            /\ WatcherInside(id) =>
                  /\ store' = store
                  /\ exit_event_sent'[id] # exit_event_sent[id] =>
                        wpc[id] = "cas" /\ wpc'[id] = "send"
            /\ ExitCount(id)' # ExitCount(id) =>
                  /\ wpc[id] = "send"
                  /\ id \in store /\ id \in store']_vars

\* A destroy_pty of the session is waiting for the store's lock while the
\* watcher, having won the claim, is about to send its Exit event.
C35_Witness ==
    \E id \in Ids :
        /\ wpc[id] = "send"
        /\ \E c \in Callers :
            cop[c] = "destroy" /\ carg[c] = id /\ cpc[c] = "d_remove"

\* Number of Output events among evs.
OutputCount(evs) == Cardinality({i \in 1..Len(evs) : IsOutput(evs[i])})

\* The reader is inside send_batch, between its fetch_add of the counters
\* and its send of the Output event.
Sending(id) == rpc[id] \in {"out", "lastout"}

C36_BatchNotCounted ==
    \E id \in Ids :
        /\ ~Sending(id)
        /\ bytes_read[id] > 0
        /\ batch_buffer[id] # <<>>
        /\ BellCount(events[id]) > 0

\* ----------------------------------------------------------- StringSpec

MaxPieces == 4

\* What the child writes in one piece: an introducer with the first letter
\* of a title, the String Terminator ESC \, a single backslash, a letter, BEL.
StringPieces ==
    {Intro \o <<LETTER>>, <<ESC, BSL>>, <<BSL>>, <<LETTER>>, <<BEL>>}

\* The chunks made of at most n pieces.
RECURSIVE StringChunks(_)
StringChunks(n) ==
    IF n = 0 THEN {}
    ELSE StringChunks(n - 1) \cup StringPieces
            \cup {c \o t : c \in StringChunks(n - 1), t \in StringPieces}

InitString == InitScan(StringChunks(MaxPieces))

\* process_for_title applied by the reader to one chunk with titles ended by
\* ESC \, by a backslash or by BEL.
StringSpec == InitString /\ [][NextTitle]_vars

\* The indices of data at which the four bytes ESC ] 0 ; begin.
IntroStarts(data) ==
    {i \in 1..Len(data) :
        /\ data[i] = ESC
        /\ i + 1 <= Len(data)
        /\ data[i + 1] = RBR
        /\ IntroAt(data, i)}

Least(S) == CHOOSE i \in S : \A j \in S : i <= j

\* ---- C37: when the first title sequence of a chunk is ended by a
\* backslash, capture ends at that backslash and the Title text is every
\* byte between the introducer and the backslash: for the String Terminator
\* ESC \ that is the title followed by the ESC byte, and for a backslash
\* inside the title text it is the text before it; the bytes after the
\* backslash are scanned as ordinary output, so that the rest of such a title
\* goes to the batch and is forwarded as Output.
C37_BackslashEndsCapture ==
    \A id \in Ids :
        (rpc[id] = "batch" /\ IntroStarts(raw[id]) # {}) =>
            LET r == raw[id]
                p == Least(IntroStarts(r))
                k == p + 3 + FirstTerminator(SubSeq(r, p + 4, Len(r)))
                rest == SubSeq(r, k + 1, Len(r))
            IN (k <= Len(r) /\ r[k] = BSL) =>
                  /\ TitleTexts(events[id]) # <<>>
                  /\ TitleTexts(events[id])[1] = SubSeq(r, p + 4, k - 1)
                  /\ batch_buffer[id] =
                         SubSeq(r, 1, p - 1) \o Whole(rest).batch
                  /\ IntroStarts(rest) = {} =>
                         batch_buffer[id] = SubSeq(r, 1, p - 1) \o rest

\* A title ended by ESC \ has been scanned: the Title text is the letter
\* followed by ESC.
C37_Witness ==
    \E id \in Ids :
        /\ rpc[id] = "batch"
        /\ raw[id] = Intro \o <<LETTER, ESC, BSL>>
        /\ TitleTexts(events[id]) = <<(<<LETTER, ESC>>)>>
        /\ batch_buffer[id] = <<>>

\* A title with a backslash inside its text, ended by BEL, has been scanned:
\* the Title text is what precedes the backslash, and the rest of the title
\* and the BEL are in the batch.
C37_BackslashInside ==
    \E id \in Ids :
        /\ rpc[id] = "batch"
        /\ raw[id] = Intro \o <<LETTER, BSL, LETTER, BEL>>
        /\ TitleTexts(events[id]) = <<(<<LETTER>>)>>
        /\ batch_buffer[id] = <<LETTER, BEL>>

\* ------------------------------------------------- PtyManager (pty.rs)

MaxManagerWrites == 2
MaxRead == 3

\* The two bytes of a two-byte UTF-8 character (U+00E9).
LEAD == 195
CONT == 169

\* What the child writes in one piece: a letter, a two-byte character, a byte
\* that no UTF-8 text holds.
ManagerTokens == {<<LETTER>>, <<LEAD, CONT>>, <<BAD>>}

\* The state of pty/core.rs and of the error values, which PtyManager never
\* touches.
coreVars == <<storeVars, instVars, events, ptyVars, readerVars, wpc,
              createVars, callVars, ioVars, mpc, metrics_interval_ms,
              platform, command, shell_env, found, resolved, errs,
              configVars>>

\* window.emit(event, payload) and its result.
Emit(event, payload, ok) ==
    [event |-> event, payload |-> payload, ok |-> ok]

OutputEvent(id) == "pty://output/" \o id
ExitEvent(id) == "pty://exit/" \o id

TaskName(id) == "task " \o id

\* The child writes tok to its terminal.
PtyChildWrite(id, tok) ==
    /\ pty_child[id] = "running"
    /\ pty_wrote[id] < MaxManagerWrites
    /\ pty_pending' = [pty_pending EXCEPT ![id] = @ \o tok]
    /\ pty_wrote' = [pty_wrote EXCEPT ![id] = @ + 1]
    /\ UNCHANGED <<coreVars, ptys, ptys_lock, pty_child, task, window, taken,
                   reaped, dpc>>

\* The child exits on its own.
PtyChildExit(id) ==
    /\ pty_child[id] = "running"
    /\ pty_child' = [pty_child EXCEPT ![id] = "exited"]
    /\ UNCHANGED <<coreVars, ptys, ptys_lock, pty_pending, pty_wrote, task,
                   window, taken, reaped, dpc>>

\* pty.rs:98: String::from_utf8(buffer[..n].to_vec()) is Ok. (Utf8Prefix: a
\* decoding that accepts a chunk whose last character is cut short.)
Utf8Prefix(chunk) ==
    \/ ValidUtf8(chunk)
    \/ /\ chunk # <<>>
       /\ chunk[Len(chunk)] >= 194
       /\ chunk[Len(chunk)] <= 244
       /\ ValidUtf8(SubSeq(chunk, 1, Len(chunk) - 1))

FromUtf8Ok(chunk) == ValidUtf8(chunk)

\* pty.rs:95-107: reader.read gives Ok(n), n > 0; the chunk is emitted if
\* String::from_utf8 accepts it, and a failed emit breaks the loop.
TaskRead(id) ==
    /\ task[id] = "read"
    /\ pty_pending[id] # <<>>
    /\ \E n \in 1..Min(Len(pty_pending[id]), MaxRead) :
        LET chunk == SubSeq(pty_pending[id], 1, n)
        IN /\ pty_pending' = [pty_pending EXCEPT ![id] =
                                 SubSeq(@, n + 1, Len(@))]
           /\ IF FromUtf8Ok(chunk)
              THEN \E ok \in BOOLEAN :
                      /\ window' = [window EXCEPT ![id] =
                             Append(@, Emit(OutputEvent(id), chunk, ok))]
                      /\ task' = [task EXCEPT ![id] =
                             IF ok THEN "read" ELSE "cleanup"]
              ELSE UNCHANGED <<window, task>>
    /\ UNCHANGED <<coreVars, ptys, ptys_lock, pty_child, pty_wrote, taken,
                   reaped, dpc>>

\* pty.rs:96 and 109-112: reader.read gives Ok(0) or Err(e) once the child is
\* gone and all it wrote has been read; the loop breaks.
TaskEnd(id) ==
    /\ task[id] = "read"
    /\ pty_pending[id] = <<>>
    /\ pty_child[id] = "exited"
    /\ task' = [task EXCEPT ![id] = "cleanup"]
    /\ UNCHANGED <<coreVars, ptys, ptys_lock, pty_child, pty_pending,
                   pty_wrote, window, taken, reaped, dpc>>

\* (TaskRemoveSilent: a task that ends without a notification when it does
\* not find the instance.)
TaskRemoveSilent(id) ==
    /\ task[id] = "cleanup"
    /\ ptys_lock = "free"
    /\ ptys_lock' = IF id \in ptys THEN TaskName(id) ELSE "free"
    /\ ptys' = ptys \ {id}
    /\ taken' = [taken EXCEPT ![id] =
                    IF id \in ptys THEN Append(@, TaskName(id)) ELSE @]
    /\ task' = [task EXCEPT ![id] = IF id \in ptys THEN "kill" ELSE "done"]
    /\ UNCHANGED <<coreVars, pty_child, pty_pending, pty_wrote, window,
                   reaped, dpc>>

\* pty.rs:118-119: ptys_clone_err.lock().unwrap() and ptys.remove.
TaskRemove(id) ==
    /\ task[id] = "cleanup"
    /\ ptys_lock = "free"
    /\ ptys_lock' = TaskName(id)
    /\ ptys' = ptys \ {id}
    /\ taken' = [taken EXCEPT ![id] =
                    IF id \in ptys THEN Append(@, TaskName(id)) ELSE @]
    /\ task' = [task EXCEPT ![id] = IF id \in ptys THEN "kill" ELSE "exit"]
    /\ UNCHANGED <<coreVars, pty_child, pty_pending, pty_wrote, window,
                   reaped, dpc>>

\* child.kill() by who: it ends a running child unless it fails.
Kill(id, who) ==
    \E ok \in BOOLEAN :
        /\ reaped' = [reaped EXCEPT ![id] = Append(@, <<who, "kill">>)]
        /\ pty_child' = [pty_child EXCEPT ![id] = IF ok THEN "exited" ELSE @]

\* child.wait() by who: it returns once the child has exited.
Wait(id, who) ==
    /\ pty_child[id] = "exited"
    /\ reaped' = [reaped EXCEPT ![id] = Append(@, <<who, "wait">>)]

\* pty.rs:120-122: pty.child.kill(), its error printed.
TaskKill(id) ==
    /\ task[id] = "kill"
    /\ Kill(id, TaskName(id))
    /\ task' = [task EXCEPT ![id] = "wait"]
    /\ UNCHANGED <<coreVars, ptys, ptys_lock, pty_pending, pty_wrote, window,
                   taken, dpc>>

\* pty.rs:123-125: pty.child.wait(), its error printed.
TaskWait(id) ==
    /\ task[id] = "wait"
    /\ Wait(id, TaskName(id))
    /\ task' = [task EXCEPT ![id] = "exit"]
    /\ UNCHANGED <<coreVars, ptys, ptys_lock, pty_child, pty_pending,
                   pty_wrote, window, taken, dpc>>

\* pty.rs:128-132: window.emit("pty://exit/{id}", ()), its error printed; the
\* guard of the map is dropped at the end of the block.
TaskExit(id) ==
    /\ task[id] = "exit"
    /\ \E ok \in BOOLEAN :
        window' = [window EXCEPT ![id] =
                      Append(@, Emit(ExitEvent(id), <<>>, ok))]
    /\ ptys_lock' = "free"
    /\ task' = [task EXCEPT ![id] = "done"]
    /\ UNCHANGED <<coreVars, ptys, pty_child, pty_pending, pty_wrote, taken,
                   reaped, dpc>>

Task(id) ==
    \/ TaskRead(id)
    \/ TaskEnd(id)
    \/ TaskRemove(id)
    \/ TaskKill(id)
    \/ TaskWait(id)
    \/ TaskExit(id)

\* pty.rs:193: PtyManager::destroy_pty(pty_id) is called.
ManagerDestroyCall(c) ==
    /\ dpc[c] = "idle"
    /\ dpc' = [dpc EXCEPT ![c] = "remove"]
    /\ UNCHANGED <<coreVars, ptys, ptys_lock, pty_child, pty_pending,
                   pty_wrote, task, window, taken, reaped>>

\* pty.rs:194-195: self.ptys.lock() and ptys.remove(&pty_id); with None the
\* guard is dropped and the call returns.
ManagerDestroyRemove(c, id) ==
    /\ dpc[c] = "remove"
    /\ ptys_lock = "free"
    /\ ptys' = ptys \ {id}
    /\ IF id \in ptys
       THEN /\ ptys_lock' = c
            /\ taken' = [taken EXCEPT ![id] = Append(@, c)]
            /\ dpc' = [dpc EXCEPT ![c] = "kill"]
       ELSE /\ dpc' = [dpc EXCEPT ![c] = "done"]
            /\ UNCHANGED <<ptys_lock, taken>>
    /\ UNCHANGED <<coreVars, pty_child, pty_pending, pty_wrote, task, window,
                   reaped>>

\* pty.rs:196: let _ = pty.child.kill().
ManagerDestroyKill(c, id) ==
    /\ dpc[c] = "kill"
    /\ Kill(id, c)
    /\ dpc' = [dpc EXCEPT ![c] = "wait"]
    /\ UNCHANGED <<coreVars, ptys, ptys_lock, pty_pending, pty_wrote, task,
                   window, taken>>

\* pty.rs:197-199: let _ = pty.child.wait(), and the guard is dropped.
ManagerDestroyWait(c, id) ==
    /\ dpc[c] = "wait"
    /\ Wait(id, c)
    /\ ptys_lock' = "free"
    /\ dpc' = [dpc EXCEPT ![c] = "done"]
    /\ UNCHANGED <<coreVars, ptys, pty_child, pty_pending, pty_wrote, task,
                   window, taken>>

\* The steps of a destroy_pty that has been called.
ManagerDestroyProgress(c) ==
    \E id \in Ids :
        \/ ManagerDestroyRemove(c, id)
        \/ ManagerDestroyKill(c, id)
        \/ ManagerDestroyWait(c, id)

ManagerDestroy(c) ==
    \/ ManagerDestroyCall(c)
    \/ ManagerDestroyProgress(c)

\* create_pty_with_command has returned Ok(pty_id): the instance is in the
\* map (pty.rs:78-85) and the reader task is spawned (pty.rs:92).
InitManager ==
    /\ InitSession
    /\ metrics_interval_ms = "None"
    /\ platform = "linux"
    /\ command = <<"echo">>
    /\ shell_env = <<"NotPresent", "">>
    /\ found = {}
    /\ resolved = <<>>
    /\ errs = <<>>
    /\ InitConfig
    /\ ptys = Ids
    /\ ptys_lock = "free"
    /\ pty_child = [id \in Ids |-> "running"]
    /\ pty_pending = [id \in Ids |-> <<>>]
    /\ pty_wrote = [id \in Ids |-> 0]
    /\ task = [id \in Ids |-> "read"]
    /\ window = [id \in Ids |-> <<>>]
    /\ taken = [id \in Ids |-> <<>>]
    /\ reaped = [id \in Ids |-> <<>>]
    /\ dpc = [c \in Callers |-> "idle"]

NextManager ==
    \/ \E id \in Ids :
        \/ Task(id)
        \/ \E tok \in ManagerTokens : PtyChildWrite(id, tok)
        \/ PtyChildExit(id)
    \/ \E c \in Callers : ManagerDestroy(c)

\* The reader task is spawned on the runtime (pty.rs:92) and a destroy_pty
\* that was called runs: each takes its next step when it has one. The
\* mutex is given to one that waits for it when it is free.
ManagerSpec ==
    /\ InitManager
    /\ [][NextManager]_vars
    /\ \A id \in Ids : WF_vars(Task(id))
    /\ \A c \in Callers : WF_vars(ManagerDestroyProgress(c))

\* Number of exit notifications among the calls of window.emit for id.
ExitNotes(id) ==
    Cardinality({k \in 1..Len(window[id]) :
                    window[id][k].event = ExitEvent(id)})

\* ---- C38: in PtyManager the reader task emits the exit notification of a
\* session once, as its last step: after its read loop has ended and after
\* its ptys.remove, whether that found the instance or destroy_pty had taken
\* it before; destroy_pty emits nothing; the instance is taken by one party
\* only, and kill and wait are made on the child by that party, once each.
\* With the child gone the task does get there.
C38_ExitAfterCleanup ==
    /\ [](\A id \in Ids :
            /\ ExitNotes(id) = IF task[id] = "done" THEN 1 ELSE 0
            /\ Len(taken[id]) <= 1
            /\ Len(reaped[id]) <= 2
            /\ \A k \in 1..Len(reaped[id]) :
                  /\ taken[id] # <<>>
                  /\ reaped[id][k] =
                         <<taken[id][1], IF k = 1 THEN "kill" ELSE "wait">>
            /\ task[id] \in {"exit", "done"} =>
                  /\ id \notin ptys
                  /\ Len(taken[id]) = 1
                  /\ Len(reaped[id]) = 2)
    /\ [][\A id \in Ids :
            /\ (\E c \in Callers : dpc'[c] # dpc[c]) => window' = window
            /\ ExitNotes(id)' # ExitNotes(id) =>
                  /\ task[id] = "exit" /\ task'[id] = "done"
                  /\ window'[id][Len(window'[id])].event = ExitEvent(id)]_vars
    /\ \A id \in Ids : (pty_child[id] = "exited") ~> (task[id] = "done")

\* destroy_pty took the instance and reaped the child, and the reader task
\* has emitted the exit notification after it.
C38_Witness ==
    \E id \in Ids :
        /\ task[id] = "done"
        /\ taken[id] # <<>>
        /\ taken[id][1] \in Callers
        /\ ExitNotes(id) = 1

\* The reader task took the instance itself, and a destroy_pty found nothing.
C38_TaskFirst ==
    \E id \in Ids :
        /\ task[id] = "done"
        /\ taken[id] = <<TaskName(id)>>
        /\ \E c \in Callers : dpc[c] = "done"
        /\ ExitNotes(id) = 1

\* The bytes the reader task takes from the PTY in this step.
ChunkRead(id) ==
    SubSeq(pty_pending[id], 1, Len(pty_pending[id]) - Len(pty_pending'[id]))

\* ---- C39: in PtyManager the reader task emits a chunk it has read as an
\* output event, with the bytes of the chunk, only when the chunk taken on
\* its own is valid UTF-8; a chunk that is not, such as one that ends inside
\* a multi-byte character or begins inside one, is dropped whole without any
\* event, and the task goes on reading.
C39_InvalidChunkDropped ==
    [][\A id \in Ids :
          Len(pty_pending'[id]) < Len(pty_pending[id]) =>
              /\ task[id] = "read"
              /\ pty_pending[id] = ChunkRead(id) \o pty_pending'[id]
              /\ IF ValidUtf8(ChunkRead(id))
                 THEN \E ok \in BOOLEAN :
                        /\ window'[id] =
                               Append(window[id],
                                      Emit(OutputEvent(id), ChunkRead(id), ok))
                        /\ task'[id] = IF ok THEN "read" ELSE "cleanup"
                 ELSE /\ window'[id] = window[id]
                      /\ task'[id] = "read"]_vars

\* The task has read a chunk that ends with the first byte of a two-byte
\* character and has dropped it: nothing was emitted, and the second byte is
\* what it reads next.
C39_Witness ==
    \E id \in Ids :
        /\ task[id] = "read"
        /\ pty_wrote[id] > 0
        /\ pty_pending[id] # <<>>
        /\ pty_pending[id][1] = CONT
        /\ window[id] = <<>>

\* ------------------------------------------------- ConfigSpec (validation.rs)

MaxEdits == 1

\* validation.rs:13-27.
SAFE_KEYS == {"t", "w", "r", "e", "o", "[", "]", "\\", "/"}

\* The keys a changed shortcut is given, and str::to_lowercase on the keys of
\* the model.
EditKeys == {"t", "T", "v", "/"}

to_lowercase(key) ==
    CASE key = "T" -> "t"
      [] OTHER -> key

ValidationError(message) == [component |-> "shortcuts", message |-> message]

\* validation.rs:44-76: <<the error>> for Some(error), <<>> for None.
validate_shortcut(name, shortcut) ==
    IF ~shortcut.ctrl \/ ~shortcut.shift
    THEN <<ValidationError("Shortcut '" \o name
                           \o "' must use Ctrl+Shift combination")>>
    ELSE IF shortcut.alt
    THEN <<ValidationError("Shortcut '" \o name
                           \o "' must not use Alt (reserved for terminal)")>>
    ELSE IF to_lowercase(shortcut.key) \notin SAFE_KEYS
    THEN <<ValidationError("Shortcut '" \o name \o "' uses key '"
                           \o shortcut.key \o "' which may interfere with "
                           \o "terminal applications")>>
    ELSE <<>>

\* validation.rs:122-128: the text of a combination.
Combo(shortcut) ==
    (IF shortcut.ctrl THEN "ctrl+" ELSE "")
        \o (IF shortcut.shift THEN "shift+" ELSE "")
        \o (IF shortcut.alt THEN "alt+" ELSE "")
        \o (IF shortcut.meta THEN "meta+" ELSE "")
        \o to_lowercase(shortcut.key)

\* validation.rs:81-104: validate_shortcut on the fields from the i-th on.
RECURSIVE EachFrom(_, _)
EachFrom(sc, i) ==
    IF i > Len(ShortcutNames) THEN <<>>
    ELSE validate_shortcut(ShortcutNames[i], sc[ShortcutNames[i]])
             \o EachFrom(sc, i + 1)

\* validation.rs:107-154: check_conflict on the fields from the i-th on, with
\* the combinations used so far.
RECURSIVE ConflictsFrom(_, _, _)
ConflictsFrom(sc, i, used_combinations) ==
    IF i > Len(ShortcutNames) THEN <<>>
    ELSE LET combo == Combo(sc[ShortcutNames[i]])
         IN IF combo \in used_combinations
            THEN <<ValidationError("Shortcut '" \o ShortcutNames[i]
                                   \o "' conflicts with another shortcut")>>
                     \o ConflictsFrom(sc, i + 1, used_combinations)
            ELSE ConflictsFrom(sc, i + 1, used_combinations \cup {combo})

\* validation.rs:78-157.
validate_shortcuts(sc) == EachFrom(sc, 1) \o ConflictsFrom(sc, 1, {})

\* validation.rs:30-41: Config::validate.
validate(sc) == validate_shortcuts(sc)

\* A shortcut of the configuration is changed (the configuration file is the
\* user's to edit, and Config::load reads it).
EditShortcut(name, shortcut) ==
    /\ edits < MaxEdits
    /\ shortcuts[name] # shortcut
    /\ shortcuts' = [shortcuts EXCEPT ![name] = shortcut]
    /\ edits' = edits + 1
    /\ validation' = <<>>
    /\ UNCHANGED <<storeVars, instVars, events, ptyVars, readerVars, wpc,
                   createVars, callVars, ioVars, mpc, metrics_interval_ms,
                   platform, command, shell_env, found, resolved, errs,
                   managerVars>>

\* lib.rs:12-15: validate_config returns config.validate().
Validate ==
    /\ validation = <<>>
    /\ validation' = <<validate(shortcuts)>>
    /\ UNCHANGED <<storeVars, instVars, events, ptyVars, readerVars, wpc,
                   createVars, callVars, ioVars, mpc, metrics_interval_ms,
                   platform, command, shell_env, found, resolved, errs,
                   managerVars, shortcuts, edits>>

NextConfig ==
    \/ Validate
    \/ \E i \in 1..Len(ShortcutNames), key \in EditKeys,
          ctrl, shift, alt, meta \in BOOLEAN :
          EditShortcut(ShortcutNames[i],
                       [key |-> key, ctrl |-> ctrl, shift |-> shift,
                        alt |-> alt, meta |-> meta])

ConfigSpec == InitError /\ [][NextConfig]_vars

\* The default shortcuts meet what the claim says of them: Ctrl+Shift, no
\* Alt, a key of the safe-key set, and no combination used twice.
DefaultsAreSafe ==
    /\ \A i \in 1..Len(ShortcutNames) :
          LET d == DefaultShortcuts[ShortcutNames[i]]
          IN d.ctrl /\ d.shift /\ ~d.alt /\ to_lowercase(d.key) \in SAFE_KEYS
    /\ \A i, j \in 1..Len(ShortcutNames) :
          i # j => Combo(DefaultShortcuts[ShortcutNames[i]])
                       # Combo(DefaultShortcuts[ShortcutNames[j]])

\* ---- C40: validate() on the default configuration returns no errors: each
\* of the eight default shortcuts uses Ctrl+Shift and no Alt and has a key of
\* the safe-key set, and no two of them have the same combination.
C40_DefaultConfigValid ==
    (validation # <<>> /\ edits = 0) =>
        /\ validation[1] = <<>>
        /\ DefaultsAreSafe
====
